---- MODULE Spec2Model ----
(***************************************************************************)
(* Model of the judge-api grader (src/judge-api/app.js): the /submit       *)
(* grading pipeline, the result parser, the generated C++ driver and the   *)
(* resource-bounded runner.                                                *)
(*                                                                         *)
(* Nullable JavaScript values are modelled as sequences of length <= 1:    *)
(* None for null, Some(v) for the value v.                                 *)
(***************************************************************************)
EXTENDS Integers, Sequences, FiniteSets, TLC

\* ---------------------------------------------------------------- bounds
\* Largest number of test cases of the problem (cases.length).
MaxCases == 3
\* Largest number of protocol lines in the captured stdout of a request.
MaxLines == 2
\* Largest number of regex matches in the text given to parseBatchResult.
MaxMatches == 3

\* ------------------------------------------------------ program constants
\* const totalLimitMs = Number(process.env.TOTAL_TIME_LIMIT_MS || 90000)
totalLimitMs == 90000
\* timer of runWithTime: timeLimitMs + 200
runGraceMs == 200
\* const maxOutputBytes = 1024 * 1024
maxOutputBytes == 1048576
\* exitCode of runWithTime after an output overflow
overflowExitCode == 137
\* exitCode of runWithTime when the child was ended by a signal
signalExitCode == 128
\* length of '\n[truncated: output exceeded 1MB]\n'
truncNoticeLen == 34
\* length of '\n[spawn error] Error: spawn /usr/bin/time ENOENT\n'
spawnErrorLen == 49
\* the negated errno the close event carries after a failed spawn (ENOENT)
spawnErrno == -2
\* Largest number of data events of one run.
MaxChunks == 3
\* Largest number of recomputations started (updateRanking calls and
\* /recalculate-rankings requests together).
MaxStarts == 2
\* largest number of recomputations started one after the other
MaxSeqStarts == 3
\* largest position at which other characters are put into a text
MaxJunkPos == 12
\* largest number of 'data' events of the compiler's stderr
MaxDiag == 4
\* pieces a diagnostic text is built from
MaxPieces == 3
\* requests that start a recomputation while the leaderboard is read
MaxBoardStarts == 2
\* clip(..., 20000), lines 213 and 273
clipLen == 20000
\* length of '\n...[clipped]', line 869
clipMarkLen == 13

None == <<>>
Some(v) == <<v>>
IsNull(o) == o = <<>>
Val(o) == o[1]

BoundedSeq(S, n) == UNION {[1..k -> S] : k \in 0..n}

\* ------------------------------------------------- parseBatchResult
\* A protocol line "CASE <idx> STATUS <st> TIME_MS <t>" as matched by the
\* regular expression: idx is \d+ (never negative), st and t are -?\d+.
Line(idx, st, t) == [idx |-> idx, st |-> st, t |-> t]

\* Array(caseCount).fill(null), twice
EmptyParseZeros(caseCount) ==
  [statuses |-> [i \in 0..(caseCount - 1) |-> Some(0)],
   times    |-> [i \in 0..(caseCount - 1) |-> Some(0)]]
EmptyParse(caseCount) ==
  [statuses |-> [i \in 0..(caseCount - 1) |-> None],
   times    |-> [i \in 0..(caseCount - 1) |-> None]]

\* The body of the while loop for one match m.
ParseLineLastWinsNoRangeCheck(acc, ln, caseCount) ==
  [statuses |-> [i \in DOMAIN acc.statuses \cup {ln.idx} |->
                   IF i = ln.idx THEN Some(ln.st) ELSE acc.statuses[i]],
   times    |-> [i \in DOMAIN acc.times \cup {ln.idx} |->
                   IF i = ln.idx THEN Some(ln.t) ELSE acc.times[i]]]

ParseLineFirstWins(acc, ln, caseCount) ==
  IF ln.idx >= 0 /\ ln.idx < caseCount /\ IsNull(acc.statuses[ln.idx])
  THEN [statuses |-> [acc.statuses EXCEPT ![ln.idx] = Some(ln.st)],
        times    |-> [acc.times EXCEPT ![ln.idx] = Some(ln.t)]]
  ELSE acc

ParseLine(acc, ln, caseCount) ==
  IF ln.idx >= 0 /\ ln.idx < caseCount
  THEN [statuses |-> [acc.statuses EXCEPT ![ln.idx] = Some(ln.st)],
        times    |-> [acc.times EXCEPT ![ln.idx] = Some(ln.t)]]
  ELSE acc

RECURSIVE ParseLines(_, _, _)
ParseLines(acc, lines, caseCount) ==
  IF lines = <<>> THEN acc
  ELSE ParseLines(ParseLine(acc, Head(lines), caseCount), Tail(lines), caseCount)

parseBatchResult(stdout, caseCount) ==
  ParseLines(EmptyParse(caseCount), stdout, caseCount)

\* ------------------------------------------------------------ state
VARIABLES
  \* --- POST /submit (one grading request) ---
  pc,              \* position of the handler (its await points)
  nCases,          \* cases.length
  submission,      \* the submissions row: None before the INSERT, else Some(row)
  results,         \* the submission_results rows of this submission, in insert order
  workDir,         \* "none" | "exists" | "removed" (cleanup(workDir) was called)
  overall, execRes, parsed,
  runWallMs,       \* Date.now() - execStartedAt when runWithTime resolved
  execElapsedMs,
  totalExecTimeMs, maxCaseTimeMs, maxMemKb, totalElapsedMs,
  insertValues,    \* rows collected by the case loop, not yet written
  compiled,        \* runCompile resolved with ok = true
  compileFailed,   \* runCompile resolved with ok = false
  threw,           \* an exception reached the catch block of the handler
  rankingCalls,    \* number of updateRanking calls made by the request
  rankingFailed,   \* updateRanking threw into the catch of lines 316-320
  response,        \* status of the body sent by res.json, if sent
  outputOverflow,  \* outputOverflow of the request's runWithTime call
  spawnError,      \* the child whose spawn emitted 'error': "none" |
                   \*   "compiler" | "runner"
  \* --- parseBatchResult (the regex scan) ---
  pCaseCount, pSeen, pAcc, pDone,
  \* --- the generated C++ driver (main of buildWrappedCode) ---
  dN,              \* CASE_COUNT
  dPhase,          \* "run" (first loop) | "print" (second loop) | "exited"
  dOutcomes,       \* per case run so far: what solveSudoku did
  dResults,        \* vector<CaseResult> results
  dPrinted,        \* protocol lines written to stdout so far
  dI,              \* i of the output loop
  dExit,           \* None while running, Some(exit code) after return
  \* --- runWithTime ---
  rWrapper,        \* the spawned child, /usr/bin/time: "running" | "exited"
                   \*   | "killed" | "nospawn" (spawn failed) | "failed"
  rProgram,        \* the binary run under it: "running" | "exited" | "none"
  rProgCode,       \* exit code of the binary
  rStdoutLen,      \* stdout.length
  rStderrLen,      \* stderr.length
  rStats,          \* stderr holds a "User time (seconds): ..." line
  rChunks,         \* number of data events so far
  rKilled, rTimeout, rOverflow,   \* killed, timeout, outputOverflow
  rTimer,          \* the timeout timer is armed
  rResult,         \* None until resolve, then Some(result)
  \* --- the ranking engine: updateRanking, recalculateAllRankings ---
  subs,            \* the submissions stored with status AC, in id order
  users,           \* users row: total_time_ms, total_memory_kb, rank
  procs,           \* the recomputations in flight: position and locals
  started,         \* number of recomputations started so far
  lastFull,        \* None, or Some(solo) once a recomputation has returned
                   \*   and nothing has started since
  \* --- the sudoku codec and the comparison ---
  cPhase,          \* "idle" | "input" | "lines" | "flat" | "text" | "parsed"
                   \*   | "compared"
  cGrid,           \* the grid that was rendered, if the text is a rendering
  cText,           \* the text given to the parser
  cExpected,       \* the text it is compared with
  cResult,         \* what parseSudoku9x9 returned or threw
  cCmp,            \* what compareSudokuOutput returned
  \* --- runCompile ---
  gState,          \* "idle" | "spawning" | "running" | "exited" | "failed"
                   \*   | "threw" | "closed"
  gCode,           \* the code 'close' gets: null after a signal
  gStderr,         \* the pieces appended to stderr
  gKilled,         \* killed
  gTimer,          \* "unset" | "armed" | "fired" | "cleared"
  gErrorPending,   \* an 'error' event is to be delivered
  gSettled,        \* "pending" | "resolved" | "rejected"
  gResult,         \* None, or Some(result) once resolved
  \* --- the diagnostic text of a result row ---
  diagSource,      \* whose text it is: "compiler" | "runner" | "exception"
  diagLen,         \* length of the text so far (stderr, String(e))
  diagPieces,      \* number of pieces it was built from
  diagPhase,       \* "idle" | "collect" | "clipped" | "stored"
  diagClipped,     \* what clip returned, if it was called
  diagStored,      \* the stderr column of the row, once inserted
  \* --- two grading requests for two versions of the problem row ---
  twinProblems,    \* the two rows of `problems`: time_limit_ms, memory_limit_kb
  twinCases,       \* cases.length
  twinIn,          \* what the compiler, the runner and the database did
  twinPhase,       \* "idle" | "start" | "first" | "both"
  twinOut,         \* what each request left: verdict, rows, time, memory
  \* --- GET /leaderboard ---
  board            \* None, or Some of what the observed read returned and of
                   \*   what it ran against: the recomputations in flight
                   \*   and the users with an AC submission

subVars == <<pc, nCases, submission, results, workDir, overall, execRes,
             runWallMs, execElapsedMs, parsed, totalExecTimeMs, maxCaseTimeMs,
             maxMemKb, totalElapsedMs, insertValues, compiled, threw,
             rankingCalls, outputOverflow, spawnError, compileFailed,
             rankingFailed, response>>
parseVars == <<pCaseCount, pSeen, pAcc, pDone>>
drvVars == <<dN, dPhase, dOutcomes, dResults, dPrinted, dI, dExit>>
runVars == <<rWrapper, rProgram, rProgCode, rStdoutLen, rStderrLen, rStats,
             rChunks, rKilled, rTimeout, rOverflow, rTimer, rResult>>
rankVars == <<subs, users, procs, started, lastFull>>
codecVars == <<cPhase, cGrid, cText, cExpected, cResult, cCmp>>
compVars == <<gState, gCode, gStderr, gKilled, gTimer, gErrorPending, gSettled,
             gResult>>
diagVars == <<diagSource, diagLen, diagPieces, diagPhase, diagClipped,
              diagStored>>
twinVars == <<twinProblems, twinCases, twinIn, twinPhase, twinOut>>
boardVars == <<board>>
vars ==
  <<subVars, parseVars, drvVars, runVars, rankVars, codecVars, compVars,
    diagVars, twinVars, boardVars>>

StatusCodes == {0, 2}
LineTimes == {0, 7}
ProtocolLines(maxIdx) ==
  {Line(i, st, t) : i \in 0..maxIdx, st \in StatusCodes, t \in LineTimes}

\* ========================================================================
\* parseBatchResult as a state machine: one step per regex match, in textual
\* order; pSeen is the sequence of matches consumed so far.
\* ========================================================================
ParseIdle ==
  /\ pCaseCount = 0 /\ pSeen = <<>> /\ pAcc = EmptyParse(0) /\ pDone = TRUE

InitParse ==
  /\ pCaseCount \in 0..MaxCases
  /\ pSeen = <<>>
  /\ pAcc = EmptyParse(pCaseCount)
  /\ pDone = FALSE

\* while ((m = re.exec(stdout)) !== null) { ... }
ParseMatch ==
  /\ ~pDone
  /\ Len(pSeen) < MaxMatches
  /\ \E ln \in ProtocolLines(MaxCases) :
       /\ pSeen' = Append(pSeen, ln)
       /\ pAcc' = ParseLine(pAcc, ln, pCaseCount)
  /\ UNCHANGED <<pCaseCount, pDone>>
  /\ UNCHANGED <<subVars, drvVars, runVars, rankVars, codecVars, compVars, diagVars, twinVars, boardVars>>

\* re.exec returns null: return { statuses, times }
ParseReturn ==
  /\ ~pDone
  /\ pDone' = TRUE
  /\ UNCHANGED <<pCaseCount, pSeen, pAcc>>
  /\ UNCHANGED <<subVars, drvVars, runVars, rankVars, codecVars, compVars, diagVars, twinVars, boardVars>>

\* ========================================================================
\* POST /submit: the grading pipeline of one request.  One action per
\* continuation of the async handler (the code between two awaits).
\* ========================================================================
Verdicts == {"AC", "WA", "TLE", "RE", "CE"}

\* A submission_results row; tc is the index in `cases` of the row's test case
\* (test_case_id = cases[tc].id, cases being ordered by id).
RowWith(tc, status, time, stderr) ==
  [tc |-> tc, status |-> status, time |-> time, stderr |-> stderr]
\* lines 220-228: the row of a case; its stderr is clip(execRes.stderr, 20000)
Row(tc, status, time) == RowWith(tc, status, time, "runStderr")
\* line 177: [submissionId, firstCaseId, 'CE', null, null, '', '']
CERowWithText == RowWith(0, "CE", None, "compileStderr")
CERow == RowWith(0, "CE", None, "")
\* line 273: [submissionId, cases[0].id, 'RE', null, null, '', clip(String(e))]
RERow == RowWith(0, "RE", None, "exception")

\* lines 204-207
CaseStatusIgnoreTimeout(timeout, statusCode) ==
  IF statusCode = Some(0) THEN "AC" ELSE "WA"

CaseStatusNullIsAC(timeout, statusCode) ==
  IF timeout THEN "TLE"
  ELSE IF IsNull(statusCode) \/ statusCode = Some(0) THEN "AC"
  ELSE "WA"

CaseStatus(timeout, statusCode) ==
  IF timeout THEN "TLE"
  ELSE IF statusCode = Some(0) THEN "AC"
  ELSE "WA"

\* lines 201-243: the loop over the cases, from index i on.
RECURSIVE CaseLoop(_, _, _, _, _)
CaseLoopNoBreak(i, acc, timeout, prs, n) ==
  IF i >= n THEN acc
  ELSE
    LET status == CaseStatus(timeout, prs.statuses[i])
        acc2 == [overall |-> IF acc.overall = "AC" /\ status # "AC"
                             THEN status ELSE acc.overall,
                 totalExecTimeMs |->
                     IF status = "AC" /\ ~IsNull(prs.times[i]) /\ Val(prs.times[i]) > 0
                     THEN acc.totalExecTimeMs + Val(prs.times[i])
                     ELSE acc.totalExecTimeMs,
                 insertValues |-> Append(acc.insertValues, Row(i, status, prs.times[i]))]
    IN CaseLoop(i + 1, acc2, timeout, prs, n)

CaseLoop(i, acc, timeout, prs, n) ==
  IF i >= n THEN acc
  ELSE
    LET status == CaseStatus(timeout, prs.statuses[i])
        acc2 == [overall |-> IF acc.overall = "AC" /\ status # "AC"
                             THEN status ELSE acc.overall,
                 totalExecTimeMs |->
                     IF status = "AC" /\ ~IsNull(prs.times[i]) /\ Val(prs.times[i]) > 0
                     THEN acc.totalExecTimeMs + Val(prs.times[i])
                     ELSE acc.totalExecTimeMs,
                 insertValues |-> Append(acc.insertValues, Row(i, status, prs.times[i]))]
    IN IF status # "AC" THEN acc2
       ELSE CaseLoop(i + 1, acc2, timeout, prs, n)

\* lines 187-188
SetMax(S) == CHOOSE m \in S : \A x \in S : x <= m
MaxValidTime(times) ==
  LET valid == {Val(times[i]) : i \in {j \in DOMAIN times :
                                         ~IsNull(times[j]) /\ Val(times[j]) > 0}}
  IN IF valid # {} THEN SetMax(valid) ELSE 0

\* line 183
ExecElapsed(res, wall) ==
  IF ~IsNull(res.execTimeMs) THEN Val(res.execTimeMs) ELSE wall

\* lines 262-265
LimitCheckAnyVerdict(ov, res, elapsed) ==
  IF res.timeout \/ elapsed > totalLimitMs THEN "TLE" ELSE ov

LimitCheckTimeoutOnly(ov, res, elapsed) ==
  IF ov = "AC" /\ res.timeout THEN "TLE" ELSE ov

LimitCheckElapsedFirst(ov, res, elapsed) ==
  IF elapsed > totalLimitMs THEN "TLE"
  ELSE IF ov = "AC" /\ res.timeout THEN "TLE" ELSE ov

LimitCheck(ov, res, elapsed) ==
  IF ov = "AC" /\ (res.timeout \/ elapsed > totalLimitMs) THEN "TLE" ELSE ov

\* lines 284-295
ExecTimeForDbAnyVerdict(ov, totalExec, res, maxCase, totalElapsed) ==
  IF totalExec > 0 THEN totalExec
  ELSE IF ~IsNull(res) /\ ~IsNull(Val(res).execTimeMs) /\ Val(Val(res).execTimeMs) > 0
       THEN Val(Val(res).execTimeMs)
  ELSE IF ~IsNull(maxCase) /\ Val(maxCase) > 0 THEN Val(maxCase)
  ELSE totalElapsed

ExecTimeForDb(ov, totalExec, res, maxCase, totalElapsed) ==
  IF ov = "AC" THEN
    IF totalExec > 0 THEN totalExec
    ELSE IF ~IsNull(res) /\ ~IsNull(Val(res).execTimeMs) /\ Val(Val(res).execTimeMs) > 0
         THEN Val(Val(res).execTimeMs)
    ELSE IF ~IsNull(maxCase) /\ Val(maxCase) > 0 THEN Val(maxCase)
    ELSE totalElapsed
  ELSE totalElapsed

\* lines 298-300
MemForDb(ov, mem, res) ==
  IF (IsNull(mem) \/ mem = Some(0)) /\ ov = "AC" /\ ~IsNull(res)
     /\ ~IsNull(Val(res).memoryKb) /\ Val(Val(res).memoryKb) > 0
  THEN Val(res).memoryKb
  ELSE mem

\* runWithTime, lines 771-773
ExitCodeNoSentinel(overflow, code, signal) ==
  IF ~IsNull(code) THEN Val(code) ELSE IF signal THEN signalExitCode ELSE 0

ExitCodeOf(overflow, code, signal) ==
  IF overflow THEN overflowExitCode
  ELSE IF ~IsNull(code) THEN Val(code)
  ELSE IF signal THEN signalExitCode ELSE 0

\* Exit codes of the generated program: 0, or 1 from the output loop.
ProgramExitCodes == {0, 1}

\* What runWithTime can resolve with, as seen by the handler, and the
\* wall-clock time Date.now() - execStartedAt measured around it.  The run
\* timer fires totalLimitMs + runGraceMs after the spawn, so a reported
\* timeout comes with a wall-clock time of at least that.
ExecTimes == {None, Some(0), Some(40), Some(totalLimitMs + 1)}
MemoryKbs == {None, Some(2048)}
WallTimes(timeout) ==
  IF timeout THEN {totalLimitMs + runGraceMs} ELSE {60, totalLimitMs + 1}
RequestOverheadMs == {0, 15}

InitSubmit ==
  /\ pc = "start"
  /\ nCases \in 1..MaxCases
  /\ submission = None
  /\ results = <<>>
  /\ workDir = "none"
  /\ overall = "AC"
  /\ execRes = None
  /\ runWallMs = 0
  /\ execElapsedMs = 0
  /\ parsed = EmptyParse(0)
  /\ totalExecTimeMs = 0
  /\ maxCaseTimeMs = None
  /\ maxMemKb = None
  /\ totalElapsedMs = 0
  /\ insertValues = <<>>
  /\ compiled = FALSE
  /\ threw = FALSE
  /\ rankingCalls = 0
  /\ outputOverflow = FALSE
  /\ rankingFailed = FALSE
  /\ response = None
  /\ spawnError = "none"
  /\ compileFailed = FALSE

\* lines 135-139: INSERT INTO submissions ... 'PENDING'.  A rejected query
\* leaves the handler with an unhandled rejection: nothing else runs.
InsertPending ==
  /\ pc = "start"
  /\ UNCHANGED <<parseVars, drvVars, runVars, rankVars, codecVars, compVars, diagVars, twinVars, boardVars>>
  /\ UNCHANGED <<rankingFailed, response>>
  /\ UNCHANGED <<outputOverflow, spawnError, compileFailed>>
  /\ \/ /\ submission' = Some([status |-> "PENDING", time |-> None, mem |-> None])
        /\ pc' = "prepare"
     \/ /\ pc' = "aborted"
        /\ UNCHANGED submission
  /\ UNCHANGED <<nCases, results, workDir, overall, execRes, runWallMs,
                 execElapsedMs, parsed, totalExecTimeMs, maxCaseTimeMs,
                 maxMemKb, totalElapsedMs, insertValues, compiled, threw,
                 rankingCalls>>

\* The catch block up to its await (lines 267-274): overall = 'RE', then the
\* INSERT of the RE row is issued.
EnterCatchKeepsVerdict ==
  /\ UNCHANGED overall
  /\ threw' = TRUE
  /\ pc' = "reInsert"

EnterCatch ==
  /\ overall' = "RE"
  /\ threw' = TRUE
  /\ pc' = "reInsert"

\* finally { cleanup(workDir) } followed by lines 279-308 up to the await of
\* the UPDATE, for the verdict ov and the elapsed time te.
LeaveTryNoCleanup(ov, te) ==
  /\ UNCHANGED workDir
  /\ overall' = ov
  /\ totalElapsedMs' = te
  /\ maxMemKb' = MemForDb(ov, maxMemKb, execRes)
  /\ pc' = "update"

LeaveTrySkipUpdate(ov, te) ==
  /\ workDir' = "removed"
  /\ overall' = ov
  /\ totalElapsedMs' = te
  /\ maxMemKb' = MemForDb(ov, maxMemKb, execRes)
  /\ pc' = IF ov = "AC" THEN "ranking" ELSE "done"

LeaveTry(ov, te) ==
  /\ workDir' = "removed"
  /\ overall' = ov
  /\ totalElapsedMs' = te
  /\ maxMemKb' = MemForDb(ov, maxMemKb, execRes)
  /\ pc' = "update"

\* lines 142-166: mkdtempSync (outside the try), buildWrappedCode,
\* writeFileSync, and the spawn of the compiler.
Prepare ==
  /\ pc = "prepare"
  /\ UNCHANGED <<parseVars, drvVars, runVars, rankVars, codecVars, compVars, diagVars, twinVars, boardVars>>
  /\ UNCHANGED <<rankingFailed, response>>
  /\ UNCHANGED <<outputOverflow, spawnError, compileFailed>>
  /\ \/ \* mkdtempSync throws: the handler ends with the exception
        /\ pc' = "aborted"
        /\ UNCHANGED <<workDir, overall, threw>>
     \/ \* buildWrappedCode or writeFileSync throws
        /\ workDir' = "exists"
        /\ EnterCatch
     \/ /\ workDir' = "exists"
        /\ pc' = "compiling"
        /\ UNCHANGED <<overall, threw>>
  /\ UNCHANGED <<nCases, submission, results, execRes, runWallMs, execElapsedMs,
                 parsed, totalExecTimeMs, maxCaseTimeMs, maxMemKb,
                 totalElapsedMs, insertValues, compiled, rankingCalls>>

\* lines 166-172 and 180-182: runCompile settled.  A spawn failure reported
\* by the 'error' event (ENOENT, EACCES, EAGAIN) sets killed and is followed
\* by 'close', so the promise resolves with ok = false; a spawn that throws,
\* or that leaves p.stderr undefined (EMFILE, ENFILE), throws inside the
\* executor and the promise rejects.
CompileDone ==
  /\ pc = "compiling"
  /\ UNCHANGED <<parseVars, drvVars, runVars, rankVars, codecVars, compVars, diagVars, twinVars, boardVars>>
  /\ UNCHANGED <<rankingFailed, response>>
  /\ \/ \* g++ ended with a non-zero code or was killed by the compile timer
        /\ compiled' = FALSE /\ compileFailed' = TRUE
        /\ overall' = "CE"
        /\ pc' = "ceInsert"
        /\ UNCHANGED <<threw, spawnError>>
     \/ \* 'error' event of the spawn, then 'close'
        /\ compiled' = FALSE /\ compileFailed' = TRUE
        /\ overall' = "CE"
        /\ pc' = "ceInsert"
        /\ spawnError' = "compiler"
        /\ UNCHANGED threw
     \/ \* the promise rejects
        /\ EnterCatch
        /\ spawnError' = "compiler"
        /\ UNCHANGED <<compiled, compileFailed>>
     \/ /\ compiled' = TRUE
        /\ pc' = "running"
        /\ UNCHANGED <<overall, threw, spawnError, compileFailed>>
  /\ UNCHANGED <<nCases, submission, results, workDir, execRes, runWallMs,
                 execElapsedMs, parsed, totalExecTimeMs, maxCaseTimeMs,
                 maxMemKb, totalElapsedMs, insertValues, rankingCalls,
                 outputOverflow>>

\* lines 173-178: the INSERT of the CE row returned or threw.
CEInsertDone ==
  /\ pc = "ceInsert"
  /\ UNCHANGED <<parseVars, drvVars, runVars, rankVars, codecVars, compVars, diagVars, twinVars, boardVars>>
  /\ UNCHANGED <<rankingFailed, response>>
  /\ UNCHANGED <<outputOverflow, spawnError, compileFailed>>
  /\ \/ /\ results' = Append(results, CERow)
        /\ LeaveTry(overall, totalElapsedMs)
        /\ UNCHANGED threw
     \/ /\ EnterCatch
        /\ UNCHANGED <<results, workDir, totalElapsedMs, maxMemKb>>
  /\ UNCHANGED <<nCases, submission, execRes, runWallMs, execElapsedMs, parsed,
                 totalExecTimeMs, maxCaseTimeMs, insertValues, compiled,
                 rankingCalls>>

\* lines 183-254 for the result res of runWithTime, its stdout and the
\* wall-clock time around the call: parse, case loop, and the batch INSERT is
\* issued (insertValues is never empty: cases.length >= 1).
AfterRun(res, stdout, wall) ==
  LET prs == parseBatchResult(stdout, nCases)
      acc == CaseLoop(0, [overall |-> overall, totalExecTimeMs |-> 0,
                          insertValues |-> <<>>],
                      res.timeout, prs, nCases)
  IN /\ execRes' = Some(res)
     /\ execElapsedMs' = ExecElapsed(res, wall)
     /\ parsed' = prs
     /\ maxCaseTimeMs' = Some(MaxValidTime(prs.times))
     /\ maxMemKb' = IF ~IsNull(res.memoryKb) /\ Val(res.memoryKb) > 0
                    THEN res.memoryKb ELSE maxMemKb
     /\ overall' = acc.overall
     /\ totalExecTimeMs' = acc.totalExecTimeMs
     /\ insertValues' = acc.insertValues
     /\ runWallMs' = wall
     /\ pc' = "rowsInsert"

\* line 182: runWithTime settled.  The result carries timeout and exitCode
\* but not outputOverflow; killed by the timer or by the overflow check the
\* child ends by a signal (code null), and after the overflow kill stderr
\* holds no statistics of /usr/bin/time.  A spawn failure is reported by
\* 'error' and 'close' (the promise resolves, with nothing captured) or
\* throws inside the executor (the promise rejects).
RunDone ==
  /\ pc = "running"
  /\ UNCHANGED <<parseVars, drvVars, runVars, rankVars, codecVars, compVars, diagVars, twinVars, boardVars>>
  /\ UNCHANGED <<rankingFailed, response>>
  /\ \/ \E stdout \in BoundedSeq(ProtocolLines(nCases), MaxLines),
           timeout \in BOOLEAN, overflow \in BOOLEAN :
          \E et \in (IF overflow THEN {None} ELSE ExecTimes),
             mem \in (IF overflow THEN {None} ELSE MemoryKbs),
             wall \in WallTimes(timeout),
             code \in (IF timeout \/ overflow THEN {None}
                       ELSE {Some(c) : c \in ProgramExitCodes}) :
            /\ AfterRun([timeout |-> timeout,
                         exitCode |->
                           ExitCodeOf(overflow, code, timeout \/ overflow),
                         execTimeMs |-> et, memoryKb |-> mem],
                        stdout, wall)
            /\ outputOverflow' = overflow
            /\ UNCHANGED <<spawnError, threw>>
     \/ \* 'error' event of the spawn, then 'close'
        \E wall \in WallTimes(FALSE) :
          /\ AfterRun([timeout |-> FALSE,
                       exitCode |-> ExitCodeOf(FALSE, Some(spawnErrno), FALSE),
                       execTimeMs |-> None, memoryKb |-> None],
                      <<>>, wall)
          /\ spawnError' = "runner"
          /\ UNCHANGED <<outputOverflow, threw>>
     \/ \* the promise rejects
        /\ EnterCatch
        /\ spawnError' = "runner"
        /\ UNCHANGED <<execRes, execElapsedMs, parsed, maxCaseTimeMs, maxMemKb,
                       totalExecTimeMs, insertValues, runWallMs,
                       outputOverflow>>
  /\ UNCHANGED <<nCases, submission, results, workDir, totalElapsedMs, compiled,
                 rankingCalls, compileFailed>>

\* lines 249-265: the batch INSERT returned (then the limit check) or threw.
RowsInsertDone ==
  /\ pc = "rowsInsert"
  /\ UNCHANGED <<parseVars, drvVars, runVars, rankVars, codecVars, compVars, diagVars, twinVars, boardVars>>
  /\ UNCHANGED <<rankingFailed, response>>
  /\ UNCHANGED <<outputOverflow, spawnError, compileFailed>>
  /\ \/ /\ results' = results \o insertValues
        /\ \E d \in RequestOverheadMs :
             LeaveTry(LimitCheck(overall, Val(execRes), execElapsedMs),
                      runWallMs + d)
        /\ UNCHANGED threw
     \/ /\ EnterCatch
        /\ UNCHANGED <<results, workDir, totalElapsedMs, maxMemKb>>
  /\ UNCHANGED <<nCases, submission, execRes, runWallMs, execElapsedMs, parsed,
                 totalExecTimeMs, maxCaseTimeMs, insertValues, compiled,
                 rankingCalls>>

\* lines 269-277: the INSERT of the RE row returned or threw; the finally
\* block runs either way, and a throw leaves the handler.
REInsertDone ==
  /\ pc = "reInsert"
  /\ UNCHANGED <<parseVars, drvVars, runVars, rankVars, codecVars, compVars, diagVars, twinVars, boardVars>>
  /\ UNCHANGED <<rankingFailed, response>>
  /\ UNCHANGED <<outputOverflow, spawnError, compileFailed>>
  /\ \/ /\ results' = Append(results, RERow)
        /\ threw' = threw
        /\ LeaveTry(overall, totalElapsedMs)
     \/ /\ workDir' = "removed"
        /\ pc' = "aborted"
        /\ UNCHANGED <<results, overall, totalElapsedMs, maxMemKb, threw>>
  /\ UNCHANGED <<nCases, submission, execRes, runWallMs, execElapsedMs, parsed,
                 totalExecTimeMs, maxCaseTimeMs, insertValues, compiled,
                 rankingCalls>>

\* line 312: if (overall === 'AC')
RankingTriggeredAlways(ov) == TRUE
RankingTriggered(ov) == ov = "AC"

\* lines 305-323: the UPDATE of the submission returned or threw.
UpdateDone ==
  /\ pc = "update"
  /\ UNCHANGED <<parseVars, drvVars, runVars, rankVars, codecVars, compVars, diagVars, twinVars, boardVars>>
  /\ UNCHANGED <<outputOverflow, spawnError, compileFailed>>
  /\ \/ /\ submission' = Some([status |-> overall,
                               time |-> Some(ExecTimeForDb(overall, totalExecTimeMs,
                                               execRes, maxCaseTimeMs, totalElapsedMs)),
                               mem |-> maxMemKb])
        /\ IF RankingTriggered(overall)
           THEN /\ pc' = "ranking" /\ rankingCalls' = rankingCalls + 1
                /\ UNCHANGED response
           ELSE /\ pc' = "done" /\ response' = Some(overall)
                /\ UNCHANGED rankingCalls
     \/ /\ pc' = "aborted"
        /\ UNCHANGED <<submission, rankingCalls, response>>
  /\ UNCHANGED rankingFailed
  /\ UNCHANGED <<nCases, results, workDir, overall, execRes, runWallMs,
                 execElapsedMs, parsed, totalExecTimeMs, maxCaseTimeMs,
                 maxMemKb, totalElapsedMs, insertValues, compiled, threw>>

\* ========================================================================
\* The generated C++ driver (buildWrappedCode, lines 927-1027).  A Grid is a
\* 9-tuple of 9-tuples; g[r][c] of the C++ code is g[r + 1][c + 1] here.
\* ========================================================================
Cells == 1..9

\* The test case of src/readme.txt: its input_text and expected_output.
PuzzleGrid ==
  <<<<5,3,0,0,7,0,0,0,0>>,
    <<6,0,0,1,9,5,0,0,0>>,
    <<0,9,8,0,0,0,0,6,0>>,
    <<8,0,0,0,6,0,0,0,3>>,
    <<4,0,0,8,0,3,0,0,1>>,
    <<7,0,0,0,2,0,0,0,6>>,
    <<0,6,0,0,0,0,2,8,0>>,
    <<0,0,0,4,1,9,0,0,5>>,
    <<0,0,0,0,8,0,0,7,9>>>>
SolvedGrid ==
  <<<<5,3,4,6,7,8,9,1,2>>,
    <<6,7,2,1,9,5,3,4,8>>,
    <<1,9,8,3,4,2,5,6,7>>,
    <<8,5,9,7,6,1,4,2,3>>,
    <<4,2,6,8,5,3,7,9,1>>,
    <<7,1,3,9,2,4,8,5,6>>,
    <<9,6,1,5,3,7,2,8,4>>,
    <<2,8,7,4,1,9,6,3,5>>,
    <<3,4,5,2,8,6,1,7,9>>>>
BlankGrid == [r \in Cells |-> [c \in Cells |-> 0]]

\* static const CaseIO CASES[]: case idx (0-based) of the embedded table.
CaseIn(idx) == IF idx % 2 = 0 THEN PuzzleGrid ELSE BlankGrid
CaseExp(idx) == SolvedGrid

SetCell(g, r, c, v) == [g EXCEPT ![r][c] = v]
\* Grids a submitted solveSudoku may return.
SwapOneTwo(g) ==
  [r \in Cells |-> [c \in Cells |->
     IF g[r][c] = 1 THEN 2 ELSE IF g[r][c] = 2 THEN 1 ELSE g[r][c]]]
LatinGrid == [r \in Cells |-> [c \in Cells |-> ((r + c) % 9) + 1]]
SameRowsGrid == [r \in Cells |-> [c \in Cells |-> c]]
SameColsGrid == [r \in Cells |-> [c \in Cells |-> r]]
OutGrids ==
  [ok      |-> SolvedGrid,
   zero    |-> SetCell(SolvedGrid, 1, 1, 0),
   ten     |-> SetCell(SolvedGrid, 1, 3, 10),
   clue    |-> SetCell(SolvedGrid, 1, 1, 1),
   dup     |-> SetCell(SolvedGrid, 1, 3, 5),
   other   |-> SwapOneTwo(SolvedGrid),
   latin   |-> LatinGrid,
   rows    |-> SameRowsGrid,
   cols    |-> SameColsGrid]
\* What one call of solveSudoku does: it throws ("fault") or returns a grid.
Outcomes == {"fault"} \cup DOMAIN OutGrids
\* chrono elapsed milliseconds of one call
DriverTimes == {7}

\* lines 945-950
validRange(g) ==
  \A r \in Cells, c \in Cells : ~(g[r][c] < 1 \/ g[r][c] > 9)

\* lines 952-957
respectClues(in, out) ==
  \A r \in Cells, c \in Cells : ~(in[r][c] # 0 /\ out[r][c] # in[r][c])

\* lines 959-979: row[a], col[b] and seen[v] are set exactly by the cells
\* visited earlier in the same scan.
validSudokuNoBoxes(g) ==
  \A i \in Cells : \A j \in Cells :
     LET a == g[i][j]
         b == g[j][i]
     IN /\ ~(a < 1 \/ a > 9 \/ b < 1 \/ b > 9)
        /\ ~(\E k \in 1..(j - 1) : g[i][k] = a)
        /\ ~(\E k \in 1..(j - 1) : g[k][i] = b)

validSudoku(g) ==
  /\ \A i \in Cells : \A j \in Cells :
       LET a == g[i][j]
           b == g[j][i]
       IN /\ ~(a < 1 \/ a > 9 \/ b < 1 \/ b > 9)
          /\ ~(\E k \in 1..(j - 1) : g[i][k] = a)
          /\ ~(\E k \in 1..(j - 1) : g[k][i] = b)
  /\ \A br \in {0, 3, 6}, bc \in {0, 3, 6} :
       \A n \in 0..8 :
          LET v == g[br + (n \div 3) + 1][bc + (n % 3) + 1]
          IN /\ ~(v < 1 \/ v > 9)
             /\ ~(\E m \in 0..(n - 1) :
                    g[br + (m \div 3) + 1][bc + (m % 3) + 1] = v)

\* lines 981-986
equalsExpected(g, exp) ==
  \A r \in Cells, c \in Cells : ~(g[r][c] # exp[r][c])

\* lines 997-1011: the status of case idx for one outcome of solveSudoku.
CaseResultStatusCluesLast(idx, o) ==
  IF o = "fault" THEN 5
  ELSE LET out == OutGrids[o] IN
       IF ~validRange(out) THEN 1
       ELSE IF ~validSudoku(out) THEN 3
       ELSE IF ~respectClues(CaseIn(idx), out) THEN 2
       ELSE IF ~equalsExpected(out, CaseExp(idx)) THEN 4
       ELSE 0

CaseResultStatus(idx, o) ==
  IF o = "fault" THEN 5
  ELSE LET out == OutGrids[o] IN
       IF ~validRange(out) THEN 1
       ELSE IF ~respectClues(CaseIn(idx), out) THEN 2
       ELSE IF ~validSudoku(out) THEN 3
       ELSE IF ~equalsExpected(out, CaseExp(idx)) THEN 4
       ELSE 0

\* line 1022: the exit code of the return inside the output loop
FailExitStatus(status) == status
FailExitZero(status) == 0
FailExit(status) == 1

InitDriver ==
  /\ dN \in 1..MaxCases
  /\ dPhase = "run"
  /\ dOutcomes = <<>>
  /\ dResults = <<>>
  /\ dPrinted = <<>>
  /\ dI = 0
  /\ dExit = None

\* lines 992-1015: one iteration of the first loop (idx = Len(dResults)); the
\* loop has no exit other than idx reaching CASE_COUNT.
DriverRunCase ==
  /\ dPhase = "run"
  /\ Len(dResults) < dN
  /\ \E o \in Outcomes, t \in DriverTimes :
       /\ dOutcomes' = Append(dOutcomes, o)
       /\ dResults' = Append(dResults,
                             [status |-> CaseResultStatus(Len(dResults), o),
                              time_ms |-> t])
  /\ dPhase' = IF Len(dResults) + 1 = dN THEN "print" ELSE "run"
  /\ UNCHANGED <<dN, dPrinted, dI, dExit>>
  /\ UNCHANGED <<subVars, parseVars, runVars, rankVars, codecVars, compVars, diagVars, twinVars, boardVars>>

\* lines 1018-1024: one iteration of the output loop.
DriverPrint ==
  /\ dPhase = "print"
  /\ dI < Len(dResults)
  /\ dPrinted' = Append(dPrinted,
                        Line(dI, dResults[dI + 1].status, dResults[dI + 1].time_ms))
  /\ IF dResults[dI + 1].status # 0
     THEN /\ dExit' = Some(FailExit(dResults[dI + 1].status))
          /\ dPhase' = "exited"
          /\ UNCHANGED dI
     ELSE /\ dI' = dI + 1
          /\ UNCHANGED <<dExit, dPhase>>
  /\ UNCHANGED <<dN, dOutcomes, dResults>>
  /\ UNCHANGED <<subVars, parseVars, runVars, rankVars, codecVars, compVars, diagVars, twinVars, boardVars>>

\* line 1025: return 0
DriverReturn ==
  /\ dPhase = "print"
  /\ dI = Len(dResults)
  /\ dExit' = Some(0)
  /\ dPhase' = "exited"
  /\ UNCHANGED <<dN, dOutcomes, dResults, dPrinted, dI>>
  /\ UNCHANGED <<subVars, parseVars, runVars, rankVars, codecVars, compVars, diagVars, twinVars, boardVars>>

\* ========================================================================
\* runWithTime (lines 719-798).  The child spawned is /usr/bin/time, which
\* runs the binary; child.kill signals the child only.  Lengths are those
\* of the captured strings (stdout.length, stderr.length).
\* ========================================================================
ChunkSizes == {1, maxOutputBytes \div 2, maxOutputBytes}

InitRun ==
  /\ \/ rWrapper = "running" /\ rProgram = "running"
     \/ rWrapper = "nospawn" /\ rProgram = "none"
  /\ rProgCode = 0
  /\ rStdoutLen = 0 /\ rStderrLen = 0 /\ rStats = FALSE /\ rChunks = 0
  /\ rKilled = FALSE /\ rTimeout = FALSE /\ rOverflow = FALSE
  /\ rTimer = TRUE
  /\ rResult = None

\* lines 734-742: killChild; SIGKILL ends the child if it is still running.
KillChild ==
  IF rKilled THEN UNCHANGED <<rKilled, rWrapper>>
  ELSE /\ rKilled' = TRUE
       /\ rWrapper' = IF rWrapper = "running" THEN "killed" ELSE rWrapper

\* lines 749-759: handleChunk for a chunk of n characters.
HandleChunk(n, isStdout, stats) ==
  LET so == IF isStdout THEN rStdoutLen + n ELSE rStdoutLen
      se == IF isStdout THEN rStderrLen ELSE rStderrLen + n
  IN /\ rStdoutLen' = so
     /\ rStats' = (rStats \/ stats)
     /\ IF so + se > maxOutputBytes
        THEN /\ rOverflow' = TRUE
             /\ rStderrLen' = se + truncNoticeLen
             /\ KillChild
        ELSE /\ rStderrLen' = se
             /\ UNCHANGED <<rOverflow, rKilled, rWrapper>>

\* A data event can arrive until the close event, also after the child has
\* exited or was killed (data still in the pipe).
RunStdoutData ==
  /\ IsNull(rResult) /\ rProgram # "none" /\ rChunks < MaxChunks
  /\ \E n \in ChunkSizes : HandleChunk(n, TRUE, FALSE)
  /\ rChunks' = rChunks + 1
  /\ UNCHANGED <<rProgram, rProgCode, rTimeout, rTimer, rResult>>
  /\ UNCHANGED <<subVars, parseVars, drvVars, rankVars, codecVars, compVars, diagVars, twinVars, boardVars>>

RunStderrData ==
  /\ IsNull(rResult) /\ rProgram # "none" /\ rChunks < MaxChunks
  /\ \E n \in ChunkSizes, stats \in BOOLEAN : HandleChunk(n, FALSE, stats)
  /\ rChunks' = rChunks + 1
  /\ UNCHANGED <<rProgram, rProgCode, rTimeout, rTimer, rResult>>
  /\ UNCHANGED <<subVars, parseVars, drvVars, rankVars, codecVars, compVars, diagVars, twinVars, boardVars>>

\* lines 744-747: the timer fires.
RunTimer ==
  /\ IsNull(rResult) /\ rTimer /\ rWrapper \notin {"nospawn", "failed"}
  /\ rTimer' = FALSE
  /\ rTimeout' = TRUE
  /\ KillChild
  /\ UNCHANGED <<rProgram, rProgCode, rStdoutLen, rStderrLen, rStats, rChunks,
                 rOverflow, rResult>>
  /\ UNCHANGED <<subVars, parseVars, drvVars, rankVars, codecVars, compVars, diagVars, twinVars, boardVars>>

\* lines 764-767: the error event of a failed spawn.
RunError ==
  /\ IsNull(rResult) /\ rWrapper = "nospawn"
  /\ rStderrLen' = rStderrLen + spawnErrorLen
  /\ rKilled' = TRUE
  /\ rWrapper' = "failed"
  /\ UNCHANGED <<rProgram, rProgCode, rStdoutLen, rStats, rChunks, rTimeout,
                 rOverflow, rTimer, rResult>>
  /\ UNCHANGED <<subVars, parseVars, drvVars, rankVars, codecVars, compVars, diagVars, twinVars, boardVars>>

\* The binary exits by itself with code c.
ProgramExit ==
  /\ rProgram = "running"
  /\ rProgram' = "exited"
  /\ \E c \in ProgramExitCodes : rProgCode' = c
  /\ UNCHANGED <<rWrapper, rStdoutLen, rStderrLen, rStats, rChunks, rKilled,
                 rTimeout, rOverflow, rTimer, rResult>>
  /\ UNCHANGED <<subVars, parseVars, drvVars, rankVars, codecVars, compVars, diagVars, twinVars, boardVars>>

\* /usr/bin/time exits with the code of the binary.
WrapperExit ==
  /\ rWrapper = "running" /\ rProgram = "exited"
  /\ rWrapper' = "exited"
  /\ UNCHANGED <<rProgram, rProgCode, rStdoutLen, rStderrLen, rStats, rChunks,
                 rKilled, rTimeout, rOverflow, rTimer, rResult>>
  /\ UNCHANGED <<subVars, parseVars, drvVars, rankVars, codecVars, compVars, diagVars, twinVars, boardVars>>

\* lines 769-789: the close event (code, signal): the child has ended and
\* every writer of its stdout and stderr pipes, the binary included, is gone.
RunClose ==
  /\ IsNull(rResult)
  /\ \/ rWrapper \in {"exited", "killed"} /\ rProgram = "exited"
     \/ rWrapper = "failed"
  /\ LET code == IF rWrapper = "exited" THEN Some(rProgCode)
                 ELSE IF rWrapper = "failed" THEN Some(spawnErrno)
                 ELSE None
         signal == rWrapper = "killed"
     IN rResult' = Some([timeout |-> rTimeout,
                         exitCode |-> ExitCodeOf(rOverflow, code, signal),
                         stdoutLen |-> rStdoutLen,
                         execTimeMs |-> IF rStats THEN Some(40) ELSE None,
                         memoryKb |-> IF rStats THEN Some(2048) ELSE None])
  /\ rTimer' = FALSE
  /\ UNCHANGED <<rWrapper, rProgram, rProgCode, rStdoutLen, rStderrLen, rStats,
                 rChunks, rKilled, rTimeout, rOverflow>>
  /\ UNCHANGED <<subVars, parseVars, drvVars, rankVars, codecVars, compVars, diagVars, twinVars, boardVars>>

\* ========================================================================
\* The ranking engine (lines 347-669).  Only the submissions stored with
\* status AC are kept: every query of the engine filters on status = 'AC'.
\* A submission is [user, problem, time, mem]: time is the SUM of the
\* exec_time_ms > 0 of its AC result rows (NULL when there is none), mem its
\* stored memory_kb.  One action per database statement that writes, the
\* reads that precede it being one action too.
\* ========================================================================
Users == {"A", "B"}
Problems == {1, 2}
ProcIds == {1, 2}
\* What an accepted submission can hold: [time, mem].
AcStored ==
  {[time |-> None, mem |-> None], [time |-> None, mem |-> Some(2048)],
   [time |-> Some(100), mem |-> Some(2048)],
   [time |-> Some(200), mem |-> Some(2048)]}

NoAggregates == [time |-> None, mem |-> None, rank |-> None]
IdleProc ==
  [pc |-> "idle", user |-> "A", todo |-> <<>>, agg |-> None, ranked |-> <<>>,
   pos |-> 0, solo |-> FALSE, prev |-> None]

RECURSIVE SumOver(_, _)
SumOver(S, f) ==
  IF S = {} THEN 0
  ELSE LET x == CHOOSE y \in S : TRUE IN f[x] + SumOver(S \ {x}, f)

\* SELECT DISTINCT problem_id FROM submissions WHERE user_id=? AND status='AC'
AcProblemsOf(all, u) ==
  {all[i].problem : i \in {j \in DOMAIN all : all[j].user = u}}
\* ... WHERE s.user_id=? AND s.problem_id=? AND s.status='AC'
\*     ORDER BY s.id ASC LIMIT 1   (lines 406-413, 551-558)
LatestAc(all, u, pr) ==
  LET ids == {i \in DOMAIN all : all[i].user = u /\ all[i].problem = pr}
  IN CHOOSE i \in ids : \A j \in ids : j <= i
EarliestAc(all, u, pr) ==
  LET ids == {i \in DOMAIN all : all[i].user = u /\ all[i].problem = pr}
  IN CHOOSE i \in ids : \A j \in ids : i <= j
\* lines 429-431 and 438-440
problemTime(sub) == IF ~IsNull(sub.time) THEN Val(sub.time) ELSE 0
problemMemory(sub) ==
  IF ~IsNull(sub.mem) /\ Val(sub.mem) > 0 THEN Val(sub.mem) ELSE 0
\* lines 399-448 and 538-604: the totals of user u
Totals(all, u) ==
  LET prs == AcProblemsOf(all, u)
      first == [pr \in prs |-> all[EarliestAc(all, u, pr)]]
  IN [time |-> SumOver(prs, [pr \in prs |-> problemTime(first[pr])]),
      mem |-> SumOver(prs, [pr \in prs |-> problemMemory(first[pr])])]
\* lines 451-453
MinimumTimeNone(t) == t
MinimumTime(t) == IF t = 0 THEN 1 ELSE t

\* the subquery COUNT(DISTINCT s.problem_id) ... status = 'AC'
solved_count(all, u) == Cardinality(AcProblemsOf(all, u))
\* lines 630-636: ORDER BY solved_count DESC, total_time_ms ASC,
\*                         total_memory_kb ASC
BeforeTimeDesc(all, us, u, v) ==
  \/ solved_count(all, u) > solved_count(all, v)
  \/ /\ solved_count(all, u) = solved_count(all, v)
     /\ \/ Val(us[u].time) > Val(us[v].time)
        \/ /\ us[u].time = us[v].time
           /\ Val(us[u].mem) < Val(us[v].mem)
Before(all, us, u, v) ==
  \/ solved_count(all, u) > solved_count(all, v)
  \/ /\ solved_count(all, u) = solved_count(all, v)
     /\ \/ Val(us[u].time) < Val(us[v].time)
        \/ /\ us[u].time = us[v].time
           /\ Val(us[u].mem) < Val(us[v].mem)
\* line 634: WHERE u.total_time_ms IS NOT NULL
HasMeasuredTime(us, u) == ~IsNull(us[u].time) /\ Val(us[u].time) > 1
HasTotalTime(us, u) == ~IsNull(us[u].time)
\* The row orders the SELECT can return: the users with a total time, sorted;
\* users equal on the three keys come in any order.
RankedOrders(all, us) ==
  LET S == {u \in Users : HasTotalTime(us, u)}
      n == Cardinality(S)
  IN {o \in [1..n -> S] :
        /\ \A i, j \in 1..n : i # j => o[i] # o[j]
        /\ \A i, j \in 1..n : i < j => ~Before(all, us, o[j], o[i])}
\* the users in id order
UserOrder == <<"A", "B">>
QualifiedUsers(all) ==
  SelectSeq(UserOrder, LAMBDA u : solved_count(all, u) > 0)

RankIdle ==
  /\ subs = <<>>
  /\ users = [u \in Users |-> NoAggregates]
  /\ procs = [p \in ProcIds |-> IdleProc]
  /\ started = 0
  /\ lastFull = None

\* No recomputation, and so no grading request that stored AC, is in progress.
AllIdle == \A p \in ProcIds : procs[p].pc = "idle"

\* A recomputation starts in process p, the first idle one, at position at
\* (for user u, if it is an updateRanking call); a recomputation in flight is
\* no longer alone.  prev keeps the users table a /recalculate-rankings
\* request found, when the recomputation before it ran alone and has finished.
Begin(p, at, u) ==
  /\ procs[p].pc = "idle"
  /\ \A q \in ProcIds : q < p => procs[q].pc # "idle"
  /\ procs' = [q \in ProcIds |->
                 IF q = p
                 THEN [IdleProc EXCEPT !.pc = at, !.user = u,
                         !.solo = \A r \in ProcIds \ {p} : procs[r].pc = "idle",
                         !.prev = IF at = "reset" /\ lastFull = Some(TRUE)
                                  THEN Some(users) ELSE None]
                 ELSE IF procs[q].pc = "idle" THEN procs[q]
                 ELSE [procs[q] EXCEPT !.solo = FALSE]]
  /\ lastFull' = None

\* lines 305-314: a grading request stores its submission as AC and calls
\* updateRanking(userId).
AcceptWithin(n) ==
  /\ started < n
  /\ \E p \in ProcIds, u \in Users, pr \in Problems, st \in AcStored :
       /\ subs = <<>> => (u = "A" /\ pr = 1)
       /\ Begin(p, "own", u)
       /\ subs' = Append(subs, [user |-> u, problem |-> pr,
                                time |-> st.time, mem |-> st.mem])
  /\ started' = started + 1
  /\ UNCHANGED users
  /\ UNCHANGED <<subVars, parseVars, drvVars, runVars, codecVars, compVars, diagVars, twinVars, boardVars>>

\* lines 58-79: /recalculate-rankings
RecalculateWithin(n) ==
  /\ started < n
  /\ \E p \in ProcIds : Begin(p, "reset", "A")
  /\ started' = started + 1
  /\ UNCHANGED <<subs, users>>
  /\ UNCHANGED <<subVars, parseVars, drvVars, runVars, codecVars, compVars, diagVars, twinVars, boardVars>>

Accept == AcceptWithin(MaxStarts)
Recalculate == RecalculateWithin(MaxStarts)
\* The same, one request after the other: a request comes when nothing runs.
AcceptAlone == AllIdle /\ AcceptWithin(MaxSeqStarts)
RecalculateAlone == AllIdle /\ RecalculateWithin(MaxSeqStarts)

\* updateRanking, lines 352-453: the reads.  With no AC problem (lines
\* 377-386) the user's fields are cleared at once.
OwnRead ==
  \E p \in ProcIds :
    /\ procs[p].pc = "own"
    /\ LET u == procs[p].user
           tot == Totals(subs, u)
       IN IF solved_count(subs, u) = 0
          THEN /\ users' = [users EXCEPT ![u] = NoAggregates]
               /\ procs' = [procs EXCEPT ![p].pc = "reset"]
          ELSE /\ procs' = [procs EXCEPT
                              ![p].pc = "ownWrite",
                              ![p].agg = Some([time |-> MinimumTime(tot.time),
                                               mem |-> tot.mem])]
               /\ UNCHANGED users
    /\ UNCHANGED <<subs, started, lastFull>>
    /\ UNCHANGED <<subVars, parseVars, drvVars, runVars, codecVars, compVars, diagVars, twinVars, boardVars>>

\* updateRanking, lines 457-460: UPDATE users SET total_time_ms, total_memory_kb
OwnWrite ==
  \E p \in ProcIds :
    /\ procs[p].pc = "ownWrite"
    /\ users' = [users EXCEPT ![procs[p].user].time = Some(Val(procs[p].agg).time),
                              ![procs[p].user].mem = Some(Val(procs[p].agg).mem)]
    /\ procs' = [procs EXCEPT ![p].pc = "reset", ![p].agg = None]
    /\ UNCHANGED <<subs, started, lastFull>>
    /\ UNCHANGED <<subVars, parseVars, drvVars, runVars, codecVars, compVars, diagVars, twinVars, boardVars>>

\* recalculateAllRankings, lines 483-506: UPDATE users SET rank = NULL, then
\* the SELECT of the qualified users.
ResetRanks ==
  \E p \in ProcIds :
    /\ procs[p].pc = "reset"
    /\ users' = [u \in Users |-> [users[u] EXCEPT !.rank = None]]
    /\ LET q == QualifiedUsers(subs)
       IN procs' = [procs EXCEPT ![p].todo = q,
                                 ![p].pc = IF q = <<>> THEN "select" ELSE "agg"]
    /\ UNCHANGED <<subs, started, lastFull>>
    /\ UNCHANGED <<subVars, parseVars, drvVars, runVars, codecVars, compVars, diagVars, twinVars, boardVars>>

\* lines 518-612: the reads for the next qualified user; a total time of 0
\* skips the user (continue).
AggRead ==
  \E p \in ProcIds :
    /\ procs[p].pc = "agg"
    /\ LET tot == Totals(subs, Head(procs[p].todo))
           rest == Tail(procs[p].todo)
       IN IF tot.time = 0
          THEN procs' = [procs EXCEPT
                           ![p].todo = rest,
                           ![p].pc = IF rest = <<>> THEN "select" ELSE "agg"]
          ELSE procs' = [procs EXCEPT ![p].agg = Some(tot),
                                      ![p].pc = "aggWrite"]
    /\ UNCHANGED <<subs, users, started, lastFull>>
    /\ UNCHANGED <<subVars, parseVars, drvVars, runVars, codecVars, compVars, diagVars, twinVars, boardVars>>

\* lines 614-617: UPDATE users SET total_time_ms, total_memory_kb
AggWrite ==
  \E p \in ProcIds :
    /\ procs[p].pc = "aggWrite"
    /\ LET u == Head(procs[p].todo)
           rest == Tail(procs[p].todo)
       IN /\ users' = [users EXCEPT ![u].time = Some(Val(procs[p].agg).time),
                                    ![u].mem = Some(Val(procs[p].agg).mem)]
          /\ procs' = [procs EXCEPT
                         ![p].todo = rest, ![p].agg = None,
                         ![p].pc = IF rest = <<>> THEN "select" ELSE "agg"]
    /\ UNCHANGED <<subs, started, lastFull>>
    /\ UNCHANGED <<subVars, parseVars, drvVars, runVars, codecVars, compVars, diagVars, twinVars, boardVars>>

\* lines 630-636: the SELECT of the users to rank
SelectRanked ==
  \E p \in ProcIds :
    /\ procs[p].pc = "select"
    /\ \E o \in RankedOrders(subs, users) :
         procs' = [procs EXCEPT
                     ![p].ranked = o, ![p].pos = 0,
                     ![p].pc = IF o = <<>> THEN "exclude" ELSE "assign"]
    /\ UNCHANGED <<subs, users, started, lastFull>>
    /\ UNCHANGED <<subVars, parseVars, drvVars, runVars, codecVars, compVars, diagVars, twinVars, boardVars>>

\* line 643: the rank of row i of rankedUsers
RankAtFirst(i) == 1
RankAt(i) == i + 1

\* lines 640-645: UPDATE users SET rank = i + 1 WHERE id = rankedUsers[i].id
AssignRank ==
  \E p \in ProcIds :
    /\ procs[p].pc = "assign"
    /\ LET i == procs[p].pos
       IN /\ users' = [users EXCEPT ![procs[p].ranked[i + 1]].rank = Some(RankAt(i))]
          /\ procs' = [procs EXCEPT
                         ![p].pos = i + 1,
                         ![p].pc = IF i + 1 = Len(procs[p].ranked)
                                   THEN "exclude" ELSE "assign"]
    /\ UNCHANGED <<subs, started, lastFull>>
    /\ UNCHANGED <<subVars, parseVars, drvVars, runVars, codecVars, compVars, diagVars, twinVars, boardVars>>

\* lines 649-659: the users without AC submission are cleared; return.
ExcludeUnqualified ==
  \E p \in ProcIds :
    /\ procs[p].pc = "exclude"
    /\ users' = [u \in Users |->
                   IF solved_count(subs, u) = 0 THEN NoAggregates ELSE users[u]]
    /\ lastFull' = Some(procs[p].solo)
    /\ procs' = [procs EXCEPT ![p] = IdleProc]
    /\ UNCHANGED <<subs, started>>
    /\ UNCHANGED <<subVars, parseVars, drvVars, runVars, codecVars, compVars, diagVars, twinVars, boardVars>>

\* lines 313-338: where the handler goes after updateRanking returned or
\* threw: the catch of lines 316-320 only logs, and res.json sends the body
\* with status: overall.
AfterRankingRethrown(failed, ov) ==
  IF failed THEN [pc |-> "aborted", response |-> None]
  ELSE [pc |-> "done", response |-> Some(ov)]
AfterRanking(failed, ov) == [pc |-> "done", response |-> Some(ov)]

\* ========================================================================
\* runCompile (lines 680-710): g++ is spawned, a timer kills it, and 'close'
\* resolves the promise.
\* ========================================================================
\* line 702: the result is ok when the process was not killed and ended
\* with code 0
CompileOkIgnoreKilled(killed, code) == code = Some(0)
CompileOk(killed, code) == ~killed /\ code = Some(0)

\* killProc (lines 688-692) when the timer or the 'error' event calls it:
\* the first call sends SIGKILL, and a compiler still running ends by the
\* signal, with code null.
KillProc ==
  /\ gKilled' = TRUE
  /\ IF ~gKilled /\ gState = "running"
     THEN gState' = "exited" /\ gCode' = None
     ELSE UNCHANGED <<gState, gCode>>

CompileIdle ==
  /\ gState = "idle" /\ gCode = None /\ gStderr = <<>> /\ gKilled = FALSE
  /\ gTimer = "unset" /\ gErrorPending = FALSE /\ gSettled = "pending"
  /\ gResult = None
InitCompile ==
  /\ gState = "spawning" /\ gCode = None /\ gStderr = <<>> /\ gKilled = FALSE
  /\ gTimer = "unset" /\ gErrorPending = FALSE /\ gSettled = "pending"
  /\ gResult = None

\* lines 681-708: the executor.  spawn starts g++; or fails with ENOENT,
\* EACCES or EAGAIN, reported by 'error' and then 'close'; or throws; or
\* fails with EMFILE or ENFILE and leaves p.stderr undefined, so that line
\* 699 throws after the timer was set.  A throw rejects the promise.
CompileSpawn ==
  /\ gState = "spawning"
  /\ \/ /\ gState' = "running" /\ gTimer' = "armed"
        /\ UNCHANGED <<gCode, gErrorPending, gSettled>>
     \/ /\ gState' = "failed" /\ gTimer' = "armed"
        /\ gCode' = Some(spawnErrno) /\ gErrorPending' = TRUE
        /\ UNCHANGED gSettled
     \/ /\ gState' = "threw" /\ gSettled' = "rejected"
        /\ gTimer' \in {"unset", "armed"}
        /\ UNCHANGED <<gCode, gErrorPending>>
  /\ UNCHANGED <<gStderr, gKilled, gResult>>
  /\ UNCHANGED <<subVars, parseVars, drvVars, runVars, rankVars, codecVars, diagVars, twinVars, boardVars>>

\* line 699: stderr += d.toString(); what the compiler wrote before it ended
\* can arrive after its end, until 'close'
CompileStderrData ==
  /\ gState \in {"running", "exited"}
  /\ Len(SelectSeq(gStderr, LAMBDA x : x = "diagnostic")) < MaxDiag
  /\ gStderr' = Append(gStderr, "diagnostic")
  /\ UNCHANGED <<gState, gCode, gKilled, gTimer, gErrorPending, gSettled,
                 gResult>>
  /\ UNCHANGED <<subVars, parseVars, drvVars, runVars, rankVars, codecVars, diagVars, twinVars, boardVars>>

\* g++ ends by itself, with code 0 or with a failure code
CompileExit ==
  /\ gState = "running"
  /\ gState' = "exited"
  /\ \E c \in {0, 1} : gCode' = Some(c)
  /\ UNCHANGED <<gStderr, gKilled, gTimer, gErrorPending, gSettled, gResult>>
  /\ UNCHANGED <<subVars, parseVars, drvVars, runVars, rankVars, codecVars, diagVars, twinVars, boardVars>>

\* lines 694-697: the timer fires (it is cleared by 'close' only)
CompileTimer ==
  /\ gTimer = "armed"
  /\ gTimer' = "fired"
  /\ gStderr' = Append(gStderr, "compile timeout")
  /\ KillProc
  /\ UNCHANGED <<gErrorPending, gSettled, gResult>>
  /\ UNCHANGED <<subVars, parseVars, drvVars, runVars, rankVars, codecVars, diagVars, twinVars, boardVars>>

\* lines 705-708: the 'error' event
CompileError ==
  /\ gErrorPending
  /\ gErrorPending' = FALSE
  /\ gStderr' = Append(gStderr, "spawn error")
  /\ KillProc
  /\ UNCHANGED <<gTimer, gSettled, gResult>>
  /\ UNCHANGED <<subVars, parseVars, drvVars, runVars, rankVars, codecVars, diagVars, twinVars, boardVars>>

\* lines 700-704: the 'close' event, after the process has ended (and after
\* 'error', if the spawn failed)
CompileClose ==
  /\ gState \in {"exited", "failed"} /\ ~gErrorPending
  /\ gSettled = "pending"
  /\ gTimer' = IF gTimer = "armed" THEN "cleared" ELSE gTimer
  /\ gSettled' = "resolved"
  /\ gResult' = Some(IF CompileOk(gKilled, gCode)
                     THEN [ok |-> TRUE, stderr |-> <<>>]
                     ELSE [ok |-> FALSE, stderr |-> gStderr])
  /\ gState' = "closed"
  /\ UNCHANGED <<gCode, gStderr, gKilled, gErrorPending>>
  /\ UNCHANGED <<subVars, parseVars, drvVars, runVars, rankVars, codecVars, diagVars, twinVars, boardVars>>

\* ========================================================================
\* The sudoku codec: parseSudoku9x9 (lines 874-901) and the comparison of
\* sudoku.js.  A text is a sequence of characters.
\* ========================================================================
DigitChar == <<"0", "1", "2", "3", "4", "5", "6", "7", "8", "9">>
DigitChars == {DigitChar[i] : i \in 1..10}
\* Number(ch) of a digit character
Number(ch) == (CHOOSE i \in 1..10 : DigitChar[i] = ch) - 1

\* s.replace(/[^0-9]/g, '')
StripNonDigits(s) == SelectSeq(s, LAMBDA ch : ch \in DigitChars)

\* text.split(/\r?\n/): the pieces between the newlines; a carriage return
\* right before a newline belongs to the separator.
SplitLines(text) ==
  LET nls == {i \in 1..Len(text) : text[i] = "\n"}
      \* the position of the k-th newline; 0 and Len(text) + 1 at the ends
      nlAt(k) == IF k = 0 THEN 0
                 ELSE IF k > Cardinality(nls) THEN Len(text) + 1
                 ELSE CHOOSE i \in nls : Cardinality({j \in nls : j < i}) = k - 1
      piece(k) ==
        LET from == nlAt(k - 1) + 1
            to == nlAt(k) - 1
            cr == to >= from /\ to < Len(text) /\ text[to] = "\r"
        IN SubSeq(text, from, IF cr THEN to - 1 ELSE to)
  IN [k \in 1..(Cardinality(nls) + 1) |-> piece(k)]

ParsedGrid(g) == [ok |-> TRUE, grid |-> g, error |-> ""]
ParseThrew(msg) == [ok |-> FALSE, grid |-> <<>>, error |-> msg]

\* lines 874-901, for the least number of digits the fallback takes.  The
\* variants: columns for rows, and a threshold of 80.
parseSudoku9x9At(text, least) ==
  LET raw == SplitLines(text)
      stripped == [i \in 1..Len(raw) |-> StripNonDigits(raw[i])]
      lines == SelectSeq(stripped, LAMBDA s : Len(s) > 0)
      d == StripNonDigits(text)
  IN IF Len(lines) >= 9 /\ \A r \in Cells : Len(lines[r]) >= 9
     THEN ParsedGrid([r \in Cells |-> [c \in Cells |-> Number(lines[r][c])]])
     ELSE IF Len(d) < least
          THEN ParseThrew("expected at least 81 digits for sudoku")
          ELSE ParsedGrid([r \in Cells |->
                             [c \in Cells |->
                                IF (r - 1) * 9 + c <= Len(d)
                                THEN Number(d[(r - 1) * 9 + c]) ELSE 0]])
parseSudoku9x9Transposed(text) ==
  LET res == parseSudoku9x9At(text, 81)
  IN IF res.ok
     THEN ParsedGrid([r \in Cells |-> [c \in Cells |-> res.grid[c][r]]])
     ELSE res
parseSudoku9x9AtLeast80(text) == parseSudoku9x9At(text, 80)
\* ... and the fallback alone (lines 890-900)
parseSudoku9x9Flat(text) ==
  LET d == StripNonDigits(text)
  IN IF Len(d) < 81 THEN ParseThrew("expected at least 81 digits for sudoku")
     ELSE ParsedGrid([r \in Cells |->
                        [c \in Cells |-> Number(d[(r - 1) * 9 + c])]])
parseSudoku9x9(text) == parseSudoku9x9At(text, 81)

\* sudoku.js lines 1-14: the digits of the text, 81 of them as 9 rows of
\* characters, or null.
parseSudokuGrid(text) ==
  LET digits == StripNonDigits(text)
  IN IF Len(digits) < 81 THEN None
     ELSE Some([r \in Cells |-> SubSeq(digits, (r - 1) * 9 + 1, r * 9)])

CompareOk ==
  [ok |-> TRUE, reason |-> "", row |-> None, col |-> None, got |-> None,
   expected |-> None]
InvalidFormat ==
  [ok |-> FALSE, reason |-> "invalid_format", row |-> None, col |-> None,
   got |-> None, expected |-> None]
\* The first cell in row-major order where two grids differ, as the result
\* of the comparison (row and col count from 0).
FirstMismatch(ug, eg) ==
  LET diff == {k \in 0..80 : ug[(k \div 9) + 1][(k % 9) + 1]
                               # eg[(k \div 9) + 1][(k % 9) + 1]}
  IN IF diff = {} THEN CompareOk
     ELSE LET k == CHOOSE x \in diff : \A y \in diff : x <= y
          IN [ok |-> FALSE, reason |-> "mismatch",
              row |-> Some(k \div 9), col |-> Some(k % 9),
              got |-> Some(ug[(k \div 9) + 1][(k % 9) + 1]),
              expected |-> Some(eg[(k \div 9) + 1][(k % 9) + 1])]

\* sudoku.js lines 16-29
compareSudokuOutput(userStdout, expectedText) ==
  LET userGrid == parseSudokuGrid(userStdout)
      expGrid == parseSudokuGrid(expectedText)
  IN IF IsNull(userGrid) \/ IsNull(expGrid) THEN InvalidFormat
     ELSE FirstMismatch(Val(userGrid), Val(expGrid))

\* ------------------------------------------------------------ the inputs
\* A 9x9 grid of digits 0..9: the puzzle or the solution of src/readme.txt
\* with one cell replaced.
CodecGrids ==
  {[g EXCEPT ![r][c] = v] : g \in {PuzzleGrid, SolvedGrid},
                            r \in Cells, c \in Cells, v \in 0..9}

\* the 81 digit characters of a grid, row by row
FlatDigits(g) ==
  [k \in 1..81 |-> DigitChar[g[((k - 1) \div 9) + 1][((k - 1) % 9) + 1] + 1]]
\* 9 lines of 9 digits, each ended by nl
RenderLines(g, nl) ==
  LET per == 9 + Len(nl)
  IN [p \in 1..(9 * per) |->
        LET r == (p - 1) \div per
            o == ((p - 1) % per) + 1
        IN IF o <= 9 THEN FlatDigits(g)[r * 9 + o] ELSE nl[o - 9]]
\* one string of 81 digits, as the test case of src/readme.txt
RenderFlat(g) == FlatDigits(g)

Newlines == {<<"\n">>, <<"\r", "\n">>}
\* n digits (those of g, repeated) in lines of w digits, the last one
\* shorter, the lines joined by nl
Chunked(g, n, w, nl) ==
  LET cnt == (n + w - 1) \div w
      per == w + Len(nl)
      len == IF n = 0 THEN 0 ELSE n + (cnt - 1) * Len(nl)
  IN [p \in 1..len |->
        LET i == (p - 1) \div per
            o == ((p - 1) % per) + 1
        IN IF o <= w THEN FlatDigits(g)[((i * w + o - 1) % 81) + 1]
           ELSE nl[o - w]]
\* ... with the characters junk put in before position j
WithJunk(t, j, junk) ==
  IF j > Len(t) + 1 THEN t
  ELSE SubSeq(t, 1, j - 1) \o junk \o SubSeq(t, j, Len(t))
DigitCounts == {0, 80, 81, 90}
LineWidths == {1, 9, 10, 81}
Junks == {<<>>, <<" ">>, <<"x", "\n">>}
CodecTexts ==
  {WithJunk(Chunked(g, n, w, nl), j, junk) :
     g \in {PuzzleGrid, SolvedGrid}, n \in DigitCounts, w \in LineWidths,
     nl \in Newlines, j \in 1..MaxJunkPos, junk \in Junks}
\* the expected_output a text is compared with
ExpectedTexts ==
  {RenderFlat(SolvedGrid), RenderLines(SolvedGrid, <<"\n">>),
   Chunked(SolvedGrid, 80, 9, <<"\n">>)}

NoParse == ParseThrew("")
CodecIdle ==
  /\ cPhase = "idle" /\ cGrid = None /\ cText = <<>> /\ cExpected = <<>>
  /\ cResult = NoParse /\ cCmp = InvalidFormat
InitCodec ==
  /\ cPhase = "input" /\ cGrid = None /\ cText = <<>> /\ cExpected = <<>>
  /\ cResult = NoParse /\ cCmp = InvalidFormat

\* a grid is rendered as 9 lines of 9 digits
CodecRenderLines ==
  /\ cPhase = "input"
  /\ \E g \in CodecGrids, nl \in Newlines :
       cGrid' = Some(g) /\ cText' = RenderLines(g, nl)
  /\ cPhase' = "lines"
  /\ UNCHANGED <<cExpected, cResult, cCmp>>
  /\ UNCHANGED <<subVars, parseVars, drvVars, runVars, rankVars, compVars, diagVars, twinVars, boardVars>>

\* a grid is rendered as one string of 81 digits
CodecRenderFlat ==
  /\ cPhase = "input"
  /\ \E g \in CodecGrids : cGrid' = Some(g) /\ cText' = RenderFlat(g)
  /\ cPhase' = "flat"
  /\ UNCHANGED <<cExpected, cResult, cCmp>>
  /\ UNCHANGED <<subVars, parseVars, drvVars, runVars, rankVars, compVars, diagVars, twinVars, boardVars>>

\* any other text
CodecWrite ==
  /\ cPhase = "input"
  /\ \E t \in CodecTexts : cText' = t
  /\ cPhase' = "text"
  /\ UNCHANGED <<cGrid, cExpected, cResult, cCmp>>
  /\ UNCHANGED <<subVars, parseVars, drvVars, runVars, rankVars, compVars, diagVars, twinVars, boardVars>>

\* parseSudoku9x9(text)
CodecParse ==
  /\ cPhase \in {"lines", "flat", "text"}
  /\ cResult' = parseSudoku9x9(cText)
  /\ cPhase' = "parsed"
  /\ UNCHANGED <<cGrid, cText, cExpected, cCmp>>
  /\ UNCHANGED <<subVars, parseVars, drvVars, runVars, rankVars, compVars, diagVars, twinVars, boardVars>>

\* compareSudokuOutput(text, expected)
CodecCompare ==
  /\ cPhase = "text"
  /\ \E e \in ExpectedTexts :
       cExpected' = e /\ cCmp' = compareSudokuOutput(cText, e)
  /\ cPhase' = "compared"
  /\ UNCHANGED <<cGrid, cText, cResult>>
  /\ UNCHANGED <<subVars, parseVars, drvVars, runVars, rankVars, compVars, diagVars, twinVars, boardVars>>

\* ========================================================================
\* The diagnostic text of a result row (lines 170-177, 213-227, 273): what
\* is written to the stderr column.  A text is given by its length: the
\* first `kept` characters of the original, followed by the clip marker
\* when `marked`.
\* ========================================================================
Text(n) == [len |-> n, kept |-> n, marked |-> FALSE]

\* lines 866-870
clipNoMarker(s, maxLen) ==
  IF s.len <= maxLen THEN s
  ELSE [len |-> maxLen, kept |-> maxLen, marked |-> FALSE]

clip(s, maxLen) ==
  IF s.len <= maxLen THEN s
  ELSE [len |-> maxLen + clipMarkLen, kept |-> maxLen, marked |-> TRUE]

\* lengths of the pieces: a character, up to and around the clip length,
\* and the most runWithTime captures before it kills the child
PieceLens == {1, clipLen - 1, clipLen, maxOutputBytes}

DiagIdle ==
  /\ diagSource = "none" /\ diagLen = 0 /\ diagPieces = 0
  /\ diagPhase = "idle" /\ diagClipped = None /\ diagStored = None

InitDiag ==
  /\ diagSource \in {"compiler", "runner", "exception"}
  /\ diagLen = 0 /\ diagPieces = 0
  /\ diagPhase = "collect" /\ diagClipped = None /\ diagStored = None

\* The text grows: a data event of the compiler's or the runner's stderr
\* (lines 699, 762), a part of the exception's message.
DiagPiece ==
  /\ diagPhase = "collect" /\ diagPieces < MaxPieces
  /\ \E n \in PieceLens : diagLen' = diagLen + n
  /\ diagPieces' = diagPieces + 1
  /\ UNCHANGED <<diagSource, diagPhase, diagClipped, diagStored>>
  /\ UNCHANGED <<subVars, parseVars, drvVars, runVars, rankVars, codecVars, compVars, twinVars, boardVars>>

\* line 213: clip(execRes.stderr, 20000); line 273: clip(String(e), 20000).
\* The compiler's text is not clipped: it is dropped (line 170).
DiagClip ==
  /\ diagPhase = "collect" /\ diagSource \in {"runner", "exception"}
  /\ diagClipped' = Some(clip(Text(diagLen), clipLen))
  /\ diagPhase' = "clipped"
  /\ UNCHANGED <<diagSource, diagLen, diagPieces, diagStored>>
  /\ UNCHANGED <<subVars, parseVars, drvVars, runVars, rankVars, codecVars, compVars, twinVars, boardVars>>

\* lines 173-178, 249-254, 269-274: the INSERT of the row; the column is a
\* MEDIUMTEXT (schema.sql line 86), which holds the text whole.
DiagInsert ==
  /\ \/ /\ diagPhase = "clipped"
        /\ diagStored' = diagClipped
     \/ /\ diagPhase = "collect" /\ diagSource = "compiler"
        /\ diagStored' = Some(Text(0))
  /\ diagPhase' = "stored"
  /\ UNCHANGED <<diagSource, diagLen, diagPieces, diagClipped>>
  /\ UNCHANGED <<subVars, parseVars, drvVars, runVars, rankVars, codecVars, compVars, twinVars, boardVars>>

\* ========================================================================
\* The grading request as a function of the problem row and of what the
\* compiler, the runner and the database did (lines 128-308), applied to
\* two versions of the problem row.
\* ========================================================================
\* rows of `problems` (schema.sql lines 25-26): time_limit_ms, memory_limit_kb
TimeLimits == {0, 30}
MemoryLimits == {1024, 262144}
ProblemRows ==
  {[time_limit_ms |-> t, memory_limit_kb |-> k] :
     t \in TimeLimits, k \in MemoryLimits}

\* line 149: Number(problem.time_limit_ms || 5000)
PerCaseLimit(problem) ==
  IF problem.time_limit_ms = 0 THEN 5000 ELSE problem.time_limit_ms

\* The limit the request applies (lines 182 and 262): totalLimitMs of line
\* 150; perCaseLimitMs is not read after line 149.
AppliedLimitPerCase(perCaseLimitMs) == perCaseLimitMs
AppliedLimit(perCaseLimitMs) == totalLimitMs

\* what the driver writes: a line per case up to the first failure
TwinStdouts(n) ==
  {[i \in 1..k |-> Line(i - 1, IF i = k THEN st ELSE 0, t)] :
     k \in 0..n, st \in StatusCodes, t \in LineTimes}

\* what happened around the request: compile is "ok" | "failed" |
\* "rejected"; run is None when runWithTime rejected; dbFail names the query
\* that throws: "insert" the INSERT inside the try, "catchInsert" every
\* INSERT, "update" the UPDATE
TwinInputs(n) ==
  {[compile |-> c, run |-> r, dbFail |-> f, overhead |-> d] :
     c \in {"ok", "failed", "rejected"},
     r \in {None} \cup
          {Some([res |-> [timeout |-> to, exitCode |-> 0, execTimeMs |-> et,
                          memoryKb |-> mem],
                 stdout |-> so, wall |-> w]) :
             to \in BOOLEAN, et \in ExecTimes, mem \in MemoryKbs,
             so \in TwinStdouts(n), w \in {60, totalLimitMs + runGraceMs}},
     f \in {"none", "insert", "catchInsert", "update"},
     d \in RequestOverheadMs}

NotStored(rows) ==
  [stored |-> FALSE, verdict |-> "PENDING", rows |-> rows, time |-> None,
   mem |-> None]

\* lines 279-308: execTimeForDb, maxMemKb, the UPDATE
Finish(in, ov, rows, te, totalExec, res, maxCase, maxMem) ==
  IF in.dbFail = "update" THEN NotStored(rows)
  ELSE [stored |-> TRUE, verdict |-> ov, rows |-> rows,
        time |-> Some(ExecTimeForDb(ov, totalExec, res, maxCase, te)),
        mem |-> MemForDb(ov, maxMem, res)]

\* lines 267-274 and what follows: the catch block
Caught(in, totalExec, res, maxCase, maxMem) ==
  IF in.dbFail = "catchInsert" THEN NotStored(<<>>)
  ELSE Finish(in, "RE", <<RERow>>, 0, totalExec, res, maxCase, maxMem)

\* lines 183-265: after runWithTime resolved
GradeRun(in, n, limit) ==
  LET run == Val(in.run)
      res == run.res
      elapsed == ExecElapsed(res, run.wall)
      prs == parseBatchResult(run.stdout, n)
      maxCase == Some(MaxValidTime(prs.times))
      maxMem == IF ~IsNull(res.memoryKb) /\ Val(res.memoryKb) > 0
                THEN res.memoryKb ELSE None
      acc == CaseLoop(0, [overall |-> "AC", totalExecTimeMs |-> 0,
                          insertValues |-> <<>>],
                      res.timeout, prs, n)
      ov == IF acc.overall = "AC" /\ (res.timeout \/ elapsed > limit)
            THEN "TLE" ELSE acc.overall
  IN IF in.dbFail \in {"insert", "catchInsert"}
     THEN Caught(in, acc.totalExecTimeMs, Some(res), maxCase, maxMem)
     ELSE Finish(in, ov, acc.insertValues, run.wall + in.overhead,
                 acc.totalExecTimeMs, Some(res), maxCase, maxMem)

\* lines 128-308 for one problem row
Grade(problem, n, in) ==
  LET perCaseLimitMs == PerCaseLimit(problem)
      limit == AppliedLimit(perCaseLimitMs)
  IN IF in.compile = "rejected" THEN Caught(in, 0, None, None, None)
     ELSE IF in.compile = "failed"
     THEN IF in.dbFail \in {"insert", "catchInsert"}
          THEN Caught(in, 0, None, None, None)
          ELSE Finish(in, "CE", <<CERow>>, 0, 0, None, None, None)
     ELSE IF IsNull(in.run) THEN Caught(in, 0, None, None, None)
     ELSE GradeRun(in, n, limit)

NoInput == [compile |-> "ok", run |-> None, dbFail |-> "none", overhead |-> 0]
TwinIdle ==
  /\ twinProblems = <<>> /\ twinCases = 0 /\ twinIn = NoInput
  /\ twinPhase = "idle" /\ twinOut = <<None, None>>
InitTwin ==
  /\ twinProblems \in ProblemRows \X ProblemRows
  /\ twinCases \in 1..MaxCases
  /\ twinIn = NoInput
  /\ twinPhase = "start" /\ twinOut = <<None, None>>

\* the request for the first version of the problem row
TwinFirst ==
  /\ twinPhase = "start"
  /\ \E in \in TwinInputs(twinCases) :
       /\ twinIn' = in
       /\ twinOut' = <<Some(Grade(twinProblems[1], twinCases, in)), None>>
  /\ twinPhase' = "first"
  /\ UNCHANGED <<twinProblems, twinCases>>
  /\ UNCHANGED <<subVars, parseVars, drvVars, runVars, rankVars, codecVars, compVars, diagVars, boardVars>>

\* the request for the second one, everything else being the same
TwinSecond ==
  /\ twinPhase = "first"
  /\ twinOut' = <<twinOut[1], Some(Grade(twinProblems[2], twinCases, twinIn))>>
  /\ twinPhase' = "both"
  /\ UNCHANGED <<twinProblems, twinCases, twinIn>>
  /\ UNCHANGED <<subVars, parseVars, drvVars, runVars, rankVars, codecVars, compVars, diagVars, boardVars>>

\* ========================================================================
\* GET /leaderboard (lines 28-51): one SELECT on the users table.
\* ========================================================================
\* line 30: Number(req.query.limit || 100)
BoardLimits == {1, 100}

\* the columns of a row (lines 33-39)
BoardRow(all, us, u) ==
  [id |-> u, rank |-> us[u].rank, total_time_ms |-> us[u].time,
   total_memory_kb |-> us[u].mem, solved_count |-> solved_count(all, u)]

\* ORDER BY rank ASC: NULL sorts first, equal ranks come in any order
RankKey(us, u) == IF IsNull(us[u].rank) THEN 0 ELSE Val(us[u].rank)

\* lines 32-45: what the SELECT can return.  The variant: no WHERE clause.
LeaderboardResultsAll(all, us, limit) ==
  LET n == Cardinality(Users)
      k == IF limit < n THEN limit ELSE n
      orders == {o \in [1..n -> Users] :
                   /\ \A i, j \in 1..n : i # j => o[i] # o[j]
                   /\ \A i, j \in 1..n :
                        i < j => RankKey(us, o[i]) <= RankKey(us, o[j])}
  IN {[i \in 1..k |-> BoardRow(all, us, o[i])] : o \in orders}

LeaderboardResults(all, us, limit) ==
  LET S == {u \in Users : ~IsNull(us[u].rank)}
      n == Cardinality(S)
      k == IF limit < n THEN limit ELSE n
      orders == {o \in [1..n -> S] :
                   /\ \A i, j \in 1..n : i # j => o[i] # o[j]
                   /\ \A i, j \in 1..n :
                        i < j => RankKey(us, o[i]) <= RankKey(us, o[j])}
  IN {[i \in 1..k |-> BoardRow(all, us, o[i])] : o \in orders}

BoardIdle == board = None

\* One GET /leaderboard request, the one that is observed: its rows, and
\* for the properties the recomputations in flight when the SELECT ran and
\* the users that had an AC submission then.
LeaderboardRead ==
  /\ IsNull(board)
  /\ \E limit \in BoardLimits :
       \E rows \in LeaderboardResults(subs, users, limit) :
         board' = Some([limit |-> limit, rows |-> rows, procs |-> procs,
                        qualified |-> {u \in Users : solved_count(subs, u) > 0}])
  /\ UNCHANGED <<subVars, parseVars, drvVars, runVars, rankVars, codecVars, compVars, diagVars, twinVars>>

\* What updateRanking(userId) leaves in the users table for the request's
\* user (A, the first to be accepted): the totals of the submission's rows
\* (lines 422-460) and rank 1 (lines 640-645); a call that threw wrote
\* nothing, or the totals only.
OwnTotals ==
  [time |-> Some(MinimumTime(totalExecTimeMs)),
   mem |-> Some(IF IsNull(maxMemKb) THEN 0 ELSE Val(maxMemKb)),
   rank |-> None]
UsersAfterRanking(failed) ==
  IF failed
  THEN {users, [users EXCEPT !["A"] = OwnTotals]}
  ELSE {[users EXCEPT !["A"] = [OwnTotals EXCEPT !.rank = Some(1)]]}

\* lines 311-338: updateRanking returned or threw (the throw is swallowed),
\* then the response is sent.
RankingDone ==
  /\ pc = "ranking"
  /\ UNCHANGED <<parseVars, drvVars, runVars, codecVars, compVars, diagVars, twinVars, boardVars>>
  /\ UNCHANGED <<subs, procs, started, lastFull>>
  /\ UNCHANGED <<outputOverflow, spawnError, compileFailed>>
  /\ \E failed \in BOOLEAN :
       /\ rankingFailed' = failed
       /\ users' \in UsersAfterRanking(failed)
       /\ pc' = AfterRanking(failed, overall).pc
       /\ response' = AfterRanking(failed, overall).response
  /\ UNCHANGED <<nCases, submission, results, workDir, overall, execRes,
                 runWallMs, execElapsedMs, parsed, totalExecTimeMs,
                 maxCaseTimeMs, maxMemKb, totalElapsedMs, insertValues,
                 compiled, threw, rankingCalls>>

Next ==
  \/ InsertPending \/ Prepare \/ CompileDone \/ CEInsertDone \/ RunDone
  \/ RowsInsertDone \/ REInsertDone \/ UpdateDone \/ RankingDone

SubmitIdle ==
  /\ pc = "idle" /\ nCases = 1 /\ submission = None /\ results = <<>>
  /\ workDir = "none" /\ overall = "AC" /\ execRes = None /\ runWallMs = 0
  /\ execElapsedMs = 0
  /\ parsed = EmptyParse(0) /\ totalExecTimeMs = 0 /\ maxCaseTimeMs = None
  /\ maxMemKb = None /\ totalElapsedMs = 0 /\ insertValues = <<>>
  /\ compiled = FALSE /\ threw = FALSE /\ rankingCalls = 0
  /\ outputOverflow = FALSE /\ spawnError = "none" /\ compileFailed = FALSE
  /\ rankingFailed = FALSE /\ response = None

DriverIdle ==
  /\ dN = 0 /\ dPhase = "idle" /\ dOutcomes = <<>> /\ dResults = <<>>
  /\ dPrinted = <<>> /\ dI = 0 /\ dExit = None

RunIdle ==
  /\ rWrapper = "idle" /\ rProgram = "none" /\ rProgCode = 0
  /\ rStdoutLen = 0 /\ rStderrLen = 0 /\ rStats = FALSE /\ rChunks = 0
  /\ rKilled = FALSE /\ rTimeout = FALSE /\ rOverflow = FALSE /\ rTimer = FALSE
  /\ rResult = None

\* One grading request.
Init ==
  /\ InitSubmit /\ ParseIdle /\ DriverIdle /\ RunIdle /\ RankIdle /\ CodecIdle
  /\ CompileIdle /\ DiagIdle
  /\ TwinIdle /\ BoardIdle
Spec == Init /\ [][Next]_vars

\* One call of parseBatchResult.
\* One run of the generated driver.
InitD ==
  /\ SubmitIdle /\ ParseIdle /\ InitDriver /\ RunIdle /\ RankIdle /\ CodecIdle
  /\ CompileIdle /\ DiagIdle
  /\ TwinIdle /\ BoardIdle
NextDriver == DriverRunCase \/ DriverPrint \/ DriverReturn
SpecDriver == InitD /\ [][NextDriver]_vars

\* One call of runWithTime.
InitR ==
  /\ SubmitIdle /\ ParseIdle /\ DriverIdle /\ InitRun /\ RankIdle /\ CodecIdle
  /\ CompileIdle /\ DiagIdle
  /\ TwinIdle /\ BoardIdle
NextRun ==
  \/ RunStdoutData \/ RunStderrData \/ RunTimer \/ RunError
  \/ ProgramExit \/ WrapperExit \/ RunClose
SpecRun == InitR /\ [][NextRun]_vars
\* The same with the scheduling the event loop and the kernel give: an armed
\* timer fires, a pending 'error' or 'close' event is delivered, and
\* /usr/bin/time exits once the binary it waits for has exited.  Nothing
\* makes the binary itself exit.
SpecRunLive ==
  /\ SpecRun
  /\ WF_vars(RunTimer) /\ WF_vars(RunError) /\ WF_vars(RunClose)
  /\ WF_vars(WrapperExit)

\* The ranking engine under acceptances and /recalculate-rankings requests.
InitK ==
  /\ SubmitIdle /\ ParseIdle /\ DriverIdle /\ RunIdle /\ RankIdle /\ CodecIdle
  /\ CompileIdle /\ DiagIdle
  /\ TwinIdle /\ BoardIdle
NextRank ==
  \/ Accept \/ Recalculate \/ OwnRead \/ OwnWrite \/ ResetRanks \/ AggRead
  \/ AggWrite \/ SelectRanked \/ AssignRank \/ ExcludeUnqualified
SpecRank == InitK /\ [][NextRank]_vars

\* One text given to the codec or to the comparison.
InitC ==
  /\ SubmitIdle /\ ParseIdle /\ DriverIdle /\ RunIdle /\ RankIdle /\ InitCodec
  /\ CompileIdle /\ DiagIdle
  /\ TwinIdle /\ BoardIdle
NextCodec ==
  \/ CodecRenderLines \/ CodecRenderFlat \/ CodecWrite \/ CodecParse
  \/ CodecCompare
SpecCodec == InitC /\ [][NextCodec]_vars

\* One call of runCompile.
InitG ==
  /\ SubmitIdle /\ ParseIdle /\ DriverIdle /\ RunIdle /\ RankIdle /\ CodecIdle
  /\ InitCompile /\ DiagIdle
  /\ TwinIdle /\ BoardIdle
NextCompile ==
  \/ CompileSpawn \/ CompileStderrData \/ CompileExit \/ CompileTimer
  \/ CompileError \/ CompileClose
SpecCompile == InitG /\ [][NextCompile]_vars

\* The ranking engine when the requests come one after the other.
InitQ ==
  /\ SubmitIdle /\ ParseIdle /\ DriverIdle /\ RunIdle /\ RankIdle /\ CodecIdle
  /\ CompileIdle /\ DiagIdle
  /\ TwinIdle /\ BoardIdle
NextSeq ==
  \/ AcceptAlone \/ RecalculateAlone \/ OwnRead \/ OwnWrite \/ ResetRanks
  \/ AggRead \/ AggWrite \/ SelectRanked \/ AssignRank \/ ExcludeUnqualified
SpecSeq == InitQ /\ [][NextSeq]_vars

\* The diagnostic text of one result row.
InitT ==
  /\ SubmitIdle /\ ParseIdle /\ DriverIdle /\ RunIdle /\ RankIdle /\ CodecIdle
  /\ CompileIdle /\ InitDiag
  /\ TwinIdle /\ BoardIdle
NextDiag == DiagPiece \/ DiagClip \/ DiagInsert
SpecDiag == InitT /\ [][NextDiag]_vars

\* Two grading requests that differ in the problem row only.
InitW ==
  /\ SubmitIdle /\ ParseIdle /\ DriverIdle /\ RunIdle /\ RankIdle /\ CodecIdle
  /\ CompileIdle /\ DiagIdle
  /\ InitTwin /\ BoardIdle
NextTwin == TwinFirst \/ TwinSecond
SpecTwin == InitW /\ [][NextTwin]_vars

\* The ranking engine, one request after the other, and a leaderboard read
\* at any moment.
InitB ==
  /\ SubmitIdle /\ ParseIdle /\ DriverIdle /\ RunIdle /\ RankIdle /\ CodecIdle
  /\ CompileIdle /\ DiagIdle
  /\ TwinIdle /\ BoardIdle
AcceptForBoard == AllIdle /\ AcceptWithin(MaxBoardStarts)
RecalculateForBoard == AllIdle /\ RecalculateWithin(MaxBoardStarts)
NextBoard ==
  \/ AcceptForBoard \/ RecalculateForBoard \/ OwnRead \/ OwnWrite \/ ResetRanks
  \/ AggRead \/ AggWrite \/ SelectRanked \/ AssignRank \/ ExcludeUnqualified
  \/ LeaderboardRead
SpecBoard == InitB /\ [][NextBoard]_vars

InitP ==
  /\ SubmitIdle /\ InitParse /\ DriverIdle /\ RunIdle /\ RankIdle /\ CodecIdle
  /\ CompileIdle /\ DiagIdle
  /\ TwinIdle /\ BoardIdle
NextParse == ParseMatch \/ ParseReturn
SpecParse == InitP /\ [][NextParse]_vars

\* ========================================================================
\* Properties of the grading request (specification Spec)
\* ========================================================================
\* The UPDATE of the submission has been written.
Stored == ~IsNull(submission) /\ Val(submission).status # "PENDING"
Verdict == Val(submission).status
\* runWithTime resolved in this request.
Ran == ~IsNull(execRes)
\* The measured elapsed time: the runner's CPU time when it was parsed,
\* otherwise the wall-clock time around the run.
Measured ==
  IF ~IsNull(Val(execRes).execTimeMs) THEN Val(Val(execRes).execTimeMs)
  ELSE runWallMs
AllParsedPass == \A i \in 0..(nCases - 1) : parsed.statuses[i] = Some(0)
FailIdxs == {i \in 0..(nCases - 1) : parsed.statuses[i] # Some(0)}
FirstFail == CHOOSE k \in FailIdxs : \A j \in FailIdxs : k <= j

\* C1: in a request without orchestration exception the stored verdict is AC
\* exactly when compilation succeeded, every case was parsed with status 0,
\* the runner did not report timeout and the measured elapsed time did not
\* exceed the total limit.
C1_AcIff ==
  (Stored /\ ~threw) =>
    (Verdict = "AC" <=>
       (compiled /\ Ran /\ AllParsedPass /\ ~Val(execRes).timeout
        /\ Measured <= totalLimitMs))

C1_Witness ==
  /\ Stored /\ ~threw /\ Verdict = "AC" /\ nCases >= 2
  /\ Measured <= totalLimitMs

\* C2 as stated: whenever the runner reported timeout = true the stored
\* verdict is TLE.
C2_Original ==
  (Stored /\ Ran /\ Val(execRes).timeout) => Verdict = "TLE"

\* C2 amended: with timeout = true the stored verdict is never AC, and it is
\* TLE unless the insert of the result rows threw (then it is RE).
C2_TimeoutNeverAc ==
  (Stored /\ Ran /\ Val(execRes).timeout) =>
    /\ Verdict # "AC"
    /\ Verdict = (IF threw THEN "RE" ELSE "TLE")

C2_Witness ==
  /\ Stored /\ Ran /\ Val(execRes).timeout /\ AllParsedPass /\ nCases >= 2
  /\ Verdict = "TLE"

\* C3 as stated: whenever the binary was run and the measured elapsed time
\* exceeds the total limit, the stored verdict is TLE.
C3_Original ==
  (Stored /\ Ran /\ Measured > totalLimitMs) => Verdict = "TLE"

\* C3 amended: when the binary was run, no exception was raised and the
\* measured elapsed time exceeds the total limit, the verdict is TLE if every
\* case was parsed as passed or the runner reported timeout; with some case
\* failed or unreported and no runner timeout it stays WA.
C3_ElapsedOverridesAcOnly ==
  (Stored /\ ~threw /\ Ran /\ Measured > totalLimitMs) =>
    Verdict = (IF AllParsedPass \/ Val(execRes).timeout THEN "TLE" ELSE "WA")

C3_Witness ==
  /\ Stored /\ ~threw /\ Ran /\ Measured > totalLimitMs
  /\ ~Val(execRes).timeout /\ ~AllParsedPass /\ Verdict = "WA"

\* The rows C4 expects for a first failure at index k.
PrefixRows(k) ==
  [j \in 1..(k + 1) |->
     Row(j - 1, IF j - 1 < k THEN "AC" ELSE "WA", parsed.times[j - 1])]
RowsAre(k) ==
  /\ Len(results) = k + 1
  /\ \A j \in 1..(k + 1) :
       /\ results[j].tc = j - 1
       /\ results[j].status = (IF j - 1 < k THEN "AC" ELSE "WA")

\* C4 as stated: compilation succeeded, no runner timeout, first failing or
\* unreported index k: exactly the rows 0..k-1 AC and k WA are recorded.
C4_Original ==
  (Stored /\ compiled /\ Ran /\ ~Val(execRes).timeout /\ FailIdxs # {}) =>
    RowsAre(FirstFail)

\* C4 amended: the same, provided the batch insert of the rows did not throw
\* (when it throws, the only row is the RE row of the catch block).
C4_HaltPrefix ==
  (Stored /\ compiled /\ Ran /\ ~Val(execRes).timeout /\ FailIdxs # {}) =>
    IF threw THEN results = <<RERow>>
    ELSE RowsAre(FirstFail) /\ results = PrefixRows(FirstFail)

\* first failure at index 1 of 3 cases, and a line was parsed for index 2
C4_Witness ==
  /\ Stored /\ compiled /\ Ran /\ ~Val(execRes).timeout /\ ~threw
  /\ nCases = MaxCases /\ FailIdxs # {} /\ FirstFail = 1
  /\ ~IsNull(parsed.statuses[2])
  /\ Len(results) = 2

\* The recorded rows are a prefix of the cases, in order.
RowsArePrefix ==
  /\ Len(results) <= nCases
  /\ \A j \in 1..Len(results) : results[j].tc = j - 1
AllRowsAc == \A j \in 1..Len(results) : results[j].status = "AC"

\* C5 as stated: the rows are a prefix of the cases, at most nCases, and
\* exactly nCases only if every case passed.
C5_Original ==
  Stored => (RowsArePrefix /\ (Len(results) = nCases => AllRowsAc))

\* C5 amended: the rows are a prefix of the cases, at most nCases, and every
\* row but the last has status AC: the number equals nCases when every case
\* passed or when the first non-passing row is the one of the last case.
C5_PrefixRows ==
  /\ RowsArePrefix
  /\ \A j \in 1..(Len(results) - 1) : results[j].status = "AC"
  /\ (Stored /\ ~threw /\ Ran /\ AllParsedPass /\ ~Val(execRes).timeout)
        => (Len(results) = nCases /\ AllRowsAc)

C5_Witness ==
  /\ Stored /\ nCases = 2 /\ Len(results) = nCases
  /\ results[2].status = "WA" /\ Verdict = "WA"

\* ========================================================================
\* Properties of the generated driver (specification SpecDriver)
\* ========================================================================
\* Case index idx (0-based) has a result with a status that is not pass.
Failed(idx) == idx < Len(dResults) /\ dResults[idx + 1].status # 0
SomeEarlierFailed(idx) == \E j \in 0..(idx - 1) : Failed(j)
\* solveSudoku was invoked for case idx / a protocol line was written for it
Invoked(idx) == idx < Len(dOutcomes)
Reported(idx) == \E k \in 1..Len(dPrinted) : dPrinted[k].idx = idx

\* C6: for every case after the first one whose status is not pass, the
\* solving operation is never invoked and no protocol line is emitted.
C6_HaltsAtFirstFailure ==
  \A idx \in 0..(dN - 1) :
     SomeEarlierFailed(idx) => (~Invoked(idx) /\ ~Reported(idx))

\* The checks of C7, stated on the grid and not as the scans of the code.
IsPermutation(S) == S = 1..9
RowVals(g, r) == {g[r][c] : c \in Cells}
ColVals(g, c) == {g[r][c] : r \in Cells}
BoxVals(g, b) ==
  {g[3 * ((b - 1) \div 3) + dr][3 * ((b - 1) % 3) + dc] : dr \in 1..3, dc \in 1..3}
ExpectedStatus(idx, o) ==
  IF o = "fault" THEN 5
  ELSE LET out == OutGrids[o] IN
    IF \E r \in Cells, c \in Cells : out[r][c] \notin 1..9 THEN 1
    ELSE IF \E r \in Cells, c \in Cells :
              CaseIn(idx)[r][c] # 0 /\ out[r][c] # CaseIn(idx)[r][c] THEN 2
    ELSE IF \E k \in Cells : \/ ~IsPermutation(RowVals(out, k))
                             \/ ~IsPermutation(ColVals(out, k))
                             \/ ~IsPermutation(BoxVals(out, k)) THEN 3
    ELSE IF out # CaseExp(idx) THEN 4
    ELSE 0

\* C7: each case gets exactly one status, the first applicable of: 5 fault,
\* 1 cell outside 1..9, 2 clue changed, 3 a row, column or box that is not a
\* permutation of 1..9, 4 differs from the expected grid, 0 otherwise.
C7_StatusPriority ==
  /\ Len(dOutcomes) = Len(dResults)
  /\ \A k \in 1..Len(dResults) :
       dResults[k].status = ExpectedStatus(k - 1, dOutcomes[k])

\* a state where an earlier check hides a later one (case 0: a clue cell set
\* to 0 is out of range and a changed clue), beside a mismatch and a
\* structurally invalid grid
C7_Witness ==
  /\ Len(dResults) = 3
  /\ dOutcomes = <<"zero", "other", "dup">>
  /\ dResults[1].status = 1 /\ dResults[2].status = 4 /\ dResults[3].status = 3

AllPass == Len(dResults) = dN /\ \A k \in 1..dN : dResults[k].status = 0
FirstFailed == CHOOSE i \in 0..(dN - 1) : Failed(i) /\ ~SomeEarlierFailed(i)

\* C8 as stated: the exit code is 0 iff every case passed, and otherwise it
\* equals the status code of the first failing case.
C8_Original ==
  ~IsNull(dExit) =>
    /\ Val(dExit) = 0 <=> AllPass
    /\ ~AllPass => Val(dExit) = dResults[FirstFailed + 1].status

\* C8 amended: the exit code is 0 iff every case passed, and otherwise it is
\* 1, whatever the status code (1..5) of the first failing case.
C8_ExitCode ==
  ~IsNull(dExit) =>
    /\ Val(dExit) = 0 <=> AllPass
    /\ ~AllPass => Val(dExit) = 1

C8_Witness ==
  /\ ~IsNull(dExit) /\ Val(dExit) = 1
  /\ ~AllPass /\ FirstFailed = 1 /\ dResults[2].status = 4

\* ========================================================================
\* Properties of parseBatchResult (specification SpecParse)
\* ========================================================================
\* Positions in the text of the lines reporting index k.
LinesFor(k) == {p \in 1..Len(pSeen) : pSeen[p].idx = k}
LastLineFor(k) == pSeen[SetMax(LinesFor(k))]

\* C9: after any sequence of protocol lines, the arrays have caseCount
\* entries (a line with an index outside [0, caseCount) changed nothing), an
\* index reported several times holds the status and time of its textually
\* last line, and an index never reported holds status = null, time = null.
C9_LastWinsInRange ==
  /\ DOMAIN pAcc.statuses = 0..(pCaseCount - 1)
  /\ DOMAIN pAcc.times = 0..(pCaseCount - 1)
  /\ \A k \in 0..(pCaseCount - 1) :
       IF LinesFor(k) = {}
       THEN pAcc.statuses[k] = None /\ pAcc.times[k] = None
       ELSE /\ pAcc.statuses[k] = Some(LastLineFor(k).st)
            /\ pAcc.times[k] = Some(LastLineFor(k).t)

\* caseCount = 3 (the bound), a line for index 3 (out of range), two lines for
\* index 0 with different status and time, indices 1 and 2 never reported
C9_Witness ==
  /\ pDone /\ pCaseCount = MaxCases
  /\ pSeen = <<Line(0, 2, 7), Line(MaxCases, 0, 7), Line(0, 0, 0)>>
  /\ pAcc.statuses[0] = Some(0) /\ pAcc.times[0] = Some(0)
  /\ pAcc.statuses[1] = None /\ pAcc.times[1] = None

\* ========================================================================
\* Properties of runWithTime (specification SpecRun)
\* ========================================================================
Captured == rStdoutLen + rStderrLen

C11_OverflowNeverAc ==
  (Stored /\ Ran /\ outputOverflow) => Verdict # "AC"

\* ========================================================================
\* Termination of runWithTime (specification SpecRunLive)
\* ========================================================================
\* C12: every run eventually returns a result, also for a program that never
\* terminates: the timer fires, the wrapper and the program under it are
\* killed, and runWithTime resolves (with timeout = true).
C12_RunReturns == <>(~IsNull(rResult))

\* ========================================================================
\* Compile failure and orchestration faults (specification Spec)
\* ========================================================================
\* The placeholder row of a compile failure: first test case, status CE, no
\* time, empty diagnostic text.
PlaceholderCE == [tc |-> 0, status |-> "CE", time |-> None, stderr |-> ""]

\* C13 as stated: after a failed or timed-out compilation the binary is
\* never run, the stored verdict is CE, the only result row is the CE row
\* (first test case, empty diagnostic text) and updateRanking is not called.
C13_Original ==
  (Stored /\ compileFailed) =>
    (~Ran /\ Verdict = "CE" /\ results = <<PlaceholderCE>> /\ rankingCalls = 0)

\* C13: after a failed or timed-out compilation the binary is never run and
\* updateRanking is never called; the stored verdict is CE with the CE row
\* (first test case, empty diagnostic text) as the only result row, unless
\* the insert of that row threw: then the verdict is RE and the only row is
\* the RE row of the catch block.
C13_CompileFailure ==
  compileFailed =>
    /\ ~Ran /\ rankingCalls = 0
    /\ Stored =>
         IF threw THEN Verdict = "RE" /\ results = <<RERow>>
         ELSE Verdict = "CE" /\ results = <<PlaceholderCE>>

C13_Witness ==
  /\ Stored /\ compileFailed /\ ~threw /\ nCases >= 2
  /\ Verdict = "CE" /\ results = <<PlaceholderCE>> /\ pc = "done"

\* The row of the catch block: first test case, status RE, no time, the text
\* of the exception.
PlaceholderRE ==
  [tc |-> 0, status |-> "RE", time |-> None, stderr |-> "exception"]

\* C14: once a step inside the try block has thrown (harness generation,
\* source write, compile, run, insert of the CE row or of the case rows), the
\* verdict is RE and updateRanking is not called; when the catch block has
\* completed, the RE row against the first test case is the only result row
\* of the submission, and the verdict written by the UPDATE is RE.
C14_ExceptionIsRE ==
  threw =>
    /\ overall = "RE" /\ rankingCalls = 0
    /\ pc \in {"update", "done"} => results = <<PlaceholderRE>>
    /\ Stored => (Verdict = "RE" /\ results = <<PlaceholderRE>>)

\* the batch insert of the rows of a two-case run threw
C14_Witness ==
  /\ Stored /\ threw /\ Ran /\ nCases >= 2 /\ Len(insertValues) = 2
  /\ Verdict = "RE" /\ results = <<PlaceholderRE>> /\ pc = "done"

\* C15: when the compiler or the runner process could not be spawned, the
\* stored verdict is RE.
C15_SpawnFailureIsRE ==
  (Stored /\ spawnError # "none") => Verdict = "RE"

\* ========================================================================
\* The stored execution time (specification Spec)
\* ========================================================================
StoredTime == Val(Val(submission).time)
\* (a) the sum of the elapsed times (> 0) of the stored rows with status AC
RECURSIVE SumAcTimes(_)
SumAcTimes(rows) ==
  IF rows = <<>> THEN 0
  ELSE LET r == Head(rows)
       IN (IF r.status = "AC" /\ ~IsNull(r.time) /\ Val(r.time) > 0
           THEN Val(r.time) ELSE 0) + SumAcTimes(Tail(rows))
\* (b) the runner's CPU time
CpuTime == Val(execRes).execTimeMs
\* (c) the largest elapsed time reported for a case, 0 if none is > 0
MaxReported ==
  LET ts == {Val(parsed.times[i]) : i \in {j \in 0..(nCases - 1) :
                                             ~IsNull(parsed.times[j])}}
  IN IF \E t \in ts : t > 0 THEN CHOOSE m \in ts : \A t \in ts : t <= m ELSE 0
\* the first applicable of (a), (b), (c), (d)
FirstApplicable ==
  IF SumAcTimes(results) > 0 THEN SumAcTimes(results)
  ELSE IF ~IsNull(CpuTime) /\ Val(CpuTime) > 0 THEN Val(CpuTime)
  ELSE IF MaxReported > 0 THEN MaxReported
  ELSE totalElapsedMs

Ended == pc \in {"done", "aborted"}

\* C17: the submission record created by a request does not remain PENDING
\* once the request has ended: it holds one of AC, WA, TLE, RE, CE, also when
\* the insert of the CE row, the insert of the catch block or the creation
\* of the work directory failed.
C17_NoPendingAtEnd ==
  (Ended /\ ~IsNull(submission)) => Verdict \in Verdicts

\* ========================================================================
\* Properties of the ranking engine (specification SpecRank)
\* ========================================================================
\* No recomputation is in flight, and one has returned since the last start.
Quiet == (\A p \in ProcIds : procs[p].pc = "idle") /\ ~IsNull(lastFull)
\* ... and that one ran with no other recomputation in flight.
SoloQuiet == Quiet /\ lastFull = Some(TRUE)
Qualified(u) == \E i \in DOMAIN subs : subs[i].user = u
SolvedBy(u) == {pr \in Problems :
                  \E i \in DOMAIN subs : subs[i].user = u /\ subs[i].problem = pr}
\* the lowest-identifier AC submission of u for pr
FirstAcOf(u, pr) ==
  subs[CHOOSE i \in DOMAIN subs :
         /\ subs[i].user = u /\ subs[i].problem = pr
         /\ \A j \in 1..(i - 1) : ~(subs[j].user = u /\ subs[j].problem = pr)]
\* the sums of the claim: AC per-case times, stored memory (null counts 0)
TimeSum(u) ==
  SumOver(SolvedBy(u),
          [pr \in SolvedBy(u) |->
             IF IsNull(FirstAcOf(u, pr).time) THEN 0
             ELSE Val(FirstAcOf(u, pr).time)])
MemSum(u) ==
  SumOver(SolvedBy(u),
          [pr \in SolvedBy(u) |->
             IF IsNull(FirstAcOf(u, pr).mem) THEN 0
             ELSE Val(FirstAcOf(u, pr).mem)])

QualifiedSet == {u \in Users : Qualified(u)}
RankOf(u) == Val(users[u].rank)
\* u comes strictly before v in the order of the three sort keys
Outranks(u, v) ==
  LET su == Cardinality(SolvedBy(u))
      sv == Cardinality(SolvedBy(v))
      tu == Val(users[u].time)
      tv == Val(users[v].time)
  IN \/ su > sv
     \/ su = sv /\ tu < tv
     \/ su = sv /\ tu = tv /\ Val(users[u].mem) < Val(users[v].mem)

SecondRunEnds(p) ==
  /\ procs[p].pc = "exclude" /\ procs'[p].pc = "idle"
  /\ procs[p].solo /\ ~IsNull(procs[p].prev)

\* C21: a full recomputation that follows a full recomputation, with no
\* submission in between, leaves every user's rank, aggregate time and
\* aggregate memory as the first one left them, ties included.
C21_Idempotent ==
  [][\A p \in ProcIds : SecondRunEnds(p) => users' = Val(procs[p].prev)]_vars


\* C22: when updateRanking threw after the submission was stored as AC, the
\* request has completed, its response reports AC, and the stored verdict,
\* time and memory are the ones the UPDATE wrote.
C22_RankingFailureSwallowed ==
  rankingFailed =>
    /\ pc = "done"
    /\ response = Some("AC")
    /\ submission = Some([status |-> "AC",
                          time |-> Some(ExecTimeForDb("AC", totalExecTimeMs,
                                          execRes, maxCaseTimeMs, totalElapsedMs)),
                          mem |-> maxMemKb])

\* an accepted submission with a measured time whose ranking update threw
C22_Witness ==
  /\ rankingFailed /\ pc = "done" /\ rankingCalls = 1
  /\ Verdict = "AC" /\ response = Some("AC")
  /\ ~IsNull(Val(submission).mem)


\* C23: a request whose stored verdict is not AC has made no call of
\* updateRanking, and the aggregate time, aggregate memory and rank of every
\* user are as they were before the request.
C23_NoRankingUnlessAc ==
  (Stored /\ Verdict # "AC") =>
    /\ rankingCalls = 0
    /\ pc # "ranking"
    /\ users = [u \in Users |-> NoAggregates]

\* a request that ran the program and ended with WA, the response sent
C23_Witness ==
  /\ Stored /\ Ran /\ Verdict = "WA" /\ pc = "done" /\ response = Some("WA")
  /\ rankingCalls = 0 /\ users = [u \in Users |-> NoAggregates]


\* The stored ranks are the ones a single recomputation on the stored data
\* assigns: 1..N over the qualified users, each once, in the order of the keys.
RanksAsRecomputed ==
  /\ \A u \in QualifiedSet : ~IsNull(users[u].rank)
  /\ {RankOf(u) : u \in QualifiedSet} = 1..Cardinality(QualifiedSet)
  /\ \A u, v \in QualifiedSet : Outranks(u, v) => RankOf(u) < RankOf(v)

\* C24: two recomputations that overlap can leave ranks that differ from the
\* ones a single recomputation assigns (the witness is such a state); ranks
\* that differ are left only when the recomputation that returned last
\* overlapped with another one.
C24_OnlyOverlapBreaksRanks ==
  (Quiet /\ ~RanksAsRecomputed) => lastFull = Some(FALSE)

\* A and B were accepted by two overlapping requests, both recomputations
\* have returned, and A and B both hold rank 1
C24_Witness ==
  /\ Quiet /\ lastFull = Some(FALSE) /\ started = 2
  /\ QualifiedSet = {"A", "B"} /\ Len(subs) = 2
  /\ users["A"].rank = Some(1) /\ users["B"].rank = Some(1)


\* The request has left the try statement of lines 160-277.
LeftPipeline == pc \in {"update", "ranking", "done", "aborted"}

\* C25: once the temporary directory has been created, cleanup(workDir) has
\* been called whenever the request has left the pipeline, whatever the way
\* out (compile failure, any verdict, exception, an exception of the catch
\* block), and before the UPDATE that stores the verdict is issued.
C25_CleanupOnEveryPath ==
  /\ (LeftPipeline /\ workDir # "none") => workDir = "removed"
  /\ Stored => workDir = "removed"
  /\ (workDir = "none") => pc \in {"start", "prepare", "aborted"}

\* the INSERT of the catch block threw, and the directory has been cleaned up
C25_Witness ==
  /\ pc = "aborted" /\ threw /\ workDir = "removed" /\ ~Stored

\* ========================================================================
\* Properties of the codec (specification SpecCodec)
\* ========================================================================
NotEnoughDigits == "expected at least 81 digits for sudoku"
DigitCount(t) == Len(StripNonDigits(t))

\* C26: a 9x9 grid of digits 0..9 rendered as 9 lines of 9 digits, or as one
\* string of 81 digits, is parsed to the same grid.
C26_RoundTrip ==
  (cPhase = "parsed" /\ ~IsNull(cGrid)) =>
    /\ cResult.ok
    /\ cResult.grid = Val(cGrid)
    /\ cResult.error = ""

\* a grid with a 9 in its first cell and a 0 in its third, rendered as 9
\* lines, has been parsed to itself
C26_Witness ==
  /\ cPhase = "parsed" /\ ~IsNull(cGrid)
  /\ \E i \in 1..Len(cText) : cText[i] = "\n"
  /\ Val(cGrid)[1][1] = 9 /\ Val(cGrid)[1][3] = 0
  /\ cResult.ok /\ cResult.grid = Val(cGrid)

\* C27: a text with fewer than 81 digit characters makes parseSudoku9x9 throw
\* the not-enough-digits error, and a text with exactly 81 is parsed, however
\* the digits are spread over lines and mixed with other characters.
C27_Threshold ==
  (cPhase = "parsed") =>
    /\ (DigitCount(cText) < 81) =>
         (~cResult.ok /\ cResult.error = NotEnoughDigits)
    /\ (DigitCount(cText) = 81) => (cResult.ok /\ Len(cResult.grid) = 9)

\* 80 digits in nine lines, the last one of 8 digits, with other characters
\* mixed in: the parser threw
C27_Witness ==
  /\ cPhase = "parsed" /\ DigitCount(cText) = 80
  /\ Len(SplitLines(cText)) >= 9 /\ Len(cText) > 90
  /\ ~cResult.ok /\ cResult.error = NotEnoughDigits

\* The comparison of the two grids the codec produces for two texts.
CodecComparison(u, e) ==
  LET a == parseSudoku9x9(u)
      b == parseSudoku9x9(e)
  IN IF ~a.ok \/ ~b.ok THEN InvalidFormat ELSE FirstMismatch(a.grid, b.grid)
\* the result of compareSudokuOutput with its two characters as numbers
AsNumbers(cmp) ==
  [cmp EXCEPT !.got = IF IsNull(@) THEN @ ELSE Some(Number(Val(@))),
              !.expected = IF IsNull(@) THEN @ ELSE Some(Number(Val(@)))]

\* C28: the comparison returns what comparing the two grids of the codec
\* gives: invalid format if a text does not parse, else the first cell that
\* differs in row-major order with both values, else success.
C28_CompareAsCodec ==
  (cPhase = "compared") => AsNumbers(cCmp) = CodecComparison(cText, cExpected)

\* ========================================================================
\* Properties of runCompile (specification SpecCompile)
\* ========================================================================
TimeoutMarked(text) == \E i \in 1..Len(text) : text[i] = "compile timeout"
CompileResolved == gSettled = "resolved"

\* The parts of the claim on the timer and on the result: when the timer has
\* fired the compiler has been killed and the marker is in the diagnostic
\* text; a result after that is a failure carrying the marker, even with
\* code 0; and the result is ok exactly when 'close' came with code 0 and
\* killed was not set.
CompileTimeoutAndResult ==
  /\ (gTimer = "fired") =>
       /\ gKilled /\ TimeoutMarked(gStderr)
       /\ gState # "running"
       /\ CompileResolved =>
            (~Val(gResult).ok /\ TimeoutMarked(Val(gResult).stderr))
  /\ CompileResolved => (Val(gResult).ok <=> (gCode = Some(0) /\ ~gKilled))

LeftNull(prs, n) ==
  {i \in 0..(n - 1) : IsNull(prs.statuses[i]) /\ IsNull(prs.times[i])}
\* the indices after the first case whose status is not 0
AfterFirstFailure ==
  {i \in 0..(dN - 1) : \E j \in 0..(i - 1) : dResults[j + 1].status # 0}

\* C30: once the driver has returned, parsing what it wrote with the case
\* count leaves at null exactly the indices after the first case whose status
\* is not 0, gives the other indices the status and time of their case, and
\* the lines written are those of the indices 0, 1, 2, ... in this order, one
\* each.
C30_NullSuffix ==
  (dPhase = "exited") =>
    LET prs == parseBatchResult(dPrinted, dN)
    IN /\ LeftNull(prs, dN) = AfterFirstFailure
       /\ \A i \in (0..(dN - 1)) \ AfterFirstFailure :
            /\ prs.statuses[i] = Some(dResults[i + 1].status)
            /\ prs.times[i] = Some(dResults[i + 1].time_ms)
       /\ \A k \in 1..Len(dPrinted) : dPrinted[k].idx = k - 1
       /\ Len(dPrinted) = dN - Cardinality(AfterFirstFailure)

\* three cases, the second one fails: two lines, index 2 left at null
C30_Witness ==
  /\ dPhase = "exited" /\ dN = 3
  /\ dResults[1].status = 0 /\ dResults[2].status # 0
  /\ Len(dPrinted) = 2
  /\ LeftNull(parseBatchResult(dPrinted, dN), dN) = {2}

\* ========================================================================
\* Order of the steps of one grading request (specification Spec)
\* ========================================================================
\* The place of each position of the handler in the order of the pipeline:
\* compile, run and parse, insert of the rows, UPDATE, ranking, response.
StepOrder(p) ==
  CASE p = "start" -> 0
    [] p = "prepare" -> 1
    [] p = "compiling" -> 2
    [] p = "running" -> 3
    [] p \in {"ceInsert", "rowsInsert"} -> 4
    [] p = "reInsert" -> 5
    [] p = "update" -> 6
    [] p = "ranking" -> 7
    [] p = "done" -> 8
    [] p = "aborted" -> 9

\* What has and has not happened at each position of the handler.
StepsInOrder ==
  /\ pc \in {"start", "prepare", "compiling"} =>
       ~compiled /\ ~compileFailed /\ ~Ran /\ results = <<>> /\ ~Stored
  /\ pc = "running" => compiled /\ ~Ran /\ results = <<>> /\ ~Stored
  /\ Ran => compiled /\ ~compileFailed
  /\ ~Ran => parsed = EmptyParse(0) /\ insertValues = <<>>
  /\ pc \in {"ceInsert", "rowsInsert", "reInsert"} => results = <<>> /\ ~Stored
  /\ pc = "rowsInsert" => Ran /\ insertValues # <<>>
  /\ pc = "update" => results # <<>> /\ ~Stored
  /\ Stored => results # <<>> /\ pc \in {"ranking", "done"}
  /\ (pc = "ranking" \/ rankingCalls > 0) =>
       Stored /\ Verdict = "AC" /\ rankingCalls = 1

\* One step of the handler: it moves forward in the order of the pipeline,
\* the binary is run only once and only after a successful compilation, and
\* the rows are written only once.
StepForward ==
  /\ StepOrder(pc') > StepOrder(pc)
  /\ execRes' # execRes => pc = "running" /\ compiled /\ IsNull(execRes)
  /\ results' # results => results = <<>> /\ ~Stored
  /\ submission' # submission => pc \in {"start", "update"}

\* C31: within one grading request the steps occur in the order compile, at
\* most one run of the binary (none when compilation failed), parse, insert
\* of the result rows, UPDATE of the verdict, and only then, for AC, the
\* ranking update, which therefore runs with the submission stored as AC.
C31_StrictOrder == []StepsInOrder /\ [][StepForward]_vars

\* an accepted request of two cases or more whose ranking update returned
C31_Witness ==
  /\ pc = "done" /\ rankingCalls = 1 /\ ~rankingFailed /\ Ran /\ compiled
  /\ nCases >= 2 /\ Len(results) = nCases /\ Verdict = "AC"
  /\ users["A"].rank = Some(1)

\* ========================================================================
\* The two strategies of parseSudoku9x9 (specification SpecCodec)
\* ========================================================================
\* The lines of a text that hold a digit, with everything but their digits
\* removed.
DigitLines(t) ==
  LET raw == SplitLines(t)
  IN SelectSeq([i \in 1..Len(raw) |-> StripNonDigits(raw[i])],
               LAMBDA s : s # <<>>)
\* At least 9 such lines, and each of the first 9 has at least 9 digits.
LineTier(dl) ==
  /\ Len(dl) >= 9
  /\ \A r \in 1..9 : Len(dl[r]) >= 9
\* Row r is the first 9 digits of the r-th line that holds a digit.
GridOfLines(dl) ==
  [r \in Cells |-> [c \in Cells |-> Number(dl[r][c])]]
\* The first 81 digits of the whole text, row by row.
GridOfDigits(d) ==
  [r \in Cells |-> [c \in Cells |-> Number(d[(r - 1) * 9 + c])]]

\* C32: parseSudoku9x9 reads by lines whenever at least 9 lines hold a
\* digit and each of the first 9 holds at least 9: row r is then the first 9
\* digits of the r-th such line, further digits and lines being ignored; only
\* otherwise does it take the first 81 digits of the text row by row (and it
\* throws when there are fewer).
C32_LineTierFirst ==
  (cPhase = "parsed") =>
    LET dl == DigitLines(cText)
        d == StripNonDigits(cText)
    IN IF LineTier(dl)
       THEN cResult.ok /\ cResult.grid = GridOfLines(dl)
       ELSE /\ cResult.ok <=> Len(d) >= 81
            /\ cResult.ok => cResult.grid = GridOfDigits(d)

\* 90 digits in 9 lines of 10 were read by lines: the grid differs from the
\* one the first 81 digits give
C32_Witness ==
  /\ cPhase = "parsed" /\ DigitCount(cText) = 90 /\ cResult.ok
  /\ LET dl == DigitLines(cText)
     IN /\ LineTier(dl) /\ Len(dl) = 9
        /\ cResult.grid = GridOfLines(dl)
        /\ cResult.grid # GridOfDigits(StripNonDigits(cText))

\* ========================================================================
\* Length of the stored diagnostic text (specification SpecDiag)
\* ========================================================================
\* C33 as stated: the text stored with a result row is never longer than
\* the clip length of 20000 characters.
C33_Original ==
  (diagPhase = "stored") => Val(diagStored).len <= clipLen

\* C33: the text stored with a result row is the original when that has at
\* most 20000 characters, and otherwise its first 20000 characters followed
\* by the 13 characters of the clip marker, 20013 in all; the row of a
\* compile failure stores the empty text.
C33_ClippedLength ==
  (diagPhase = "stored") =>
    LET s == Val(diagStored)
    IN /\ s.len <= clipLen + clipMarkLen
       /\ diagSource = "compiler" => s = [len |-> 0, kept |-> 0, marked |-> FALSE]
       /\ (diagSource # "compiler" /\ diagLen <= clipLen) =>
            s = [len |-> diagLen, kept |-> diagLen, marked |-> FALSE]
       /\ (diagSource # "compiler" /\ diagLen > clipLen) =>
            s = [len |-> clipLen + clipMarkLen, kept |-> clipLen,
                 marked |-> TRUE]

\* the runner's stderr of more than a megabyte was stored as 20013 characters
C33_Witness ==
  /\ diagPhase = "stored" /\ diagSource = "runner"
  /\ diagLen > maxOutputBytes
  /\ Val(diagStored).marked /\ Val(diagStored).len = clipLen + clipMarkLen

\* ========================================================================
\* The stored verdict and the recorded rows (specification Spec)
\* ========================================================================
LastRow == results[Len(results)]
RowStatuses == {results[i].status : i \in 1..Len(results)}
\* The runner reported timeout in this request.
RunnerTimeout == Ran /\ Val(execRes).timeout
\* The verdict is TLE although the runner did not report timeout.
TleByElapsed == Verdict = "TLE" /\ ~RunnerTimeout

\* C34: the stored verdict of a graded submission is the status of its last
\* recorded row (and every row is AC when the verdict is AC), except for a
\* TLE without runner timeout: then the measured elapsed time exceeded the
\* total limit and every recorded row is AC.
C34_VerdictIsLastRow ==
  Stored =>
    /\ results # <<>>
    /\ IF TleByElapsed
       THEN RowStatuses = {"AC"} /\ Ran /\ Measured > totalLimitMs
       ELSE /\ LastRow.status = Verdict
            /\ Verdict = "AC" => RowStatuses = {"AC"}
            /\ \A i \in 1..(Len(results) - 1) : results[i].status = "AC"

\* a request of two cases whose rows are both AC was stored as TLE for its
\* elapsed time, the runner not having reported timeout
C34_Witness ==
  /\ Stored /\ TleByElapsed /\ nCases = 2 /\ Len(results) = 2
  /\ RowStatuses = {"AC"} /\ Measured > totalLimitMs /\ ~threw

\* ========================================================================
\* Independence from the problem's limits (specification SpecTwin)
\* ========================================================================
\* C35: two grading requests that differ only in the problem's time limit
\* and memory limit, with the same compile result, runner result and
\* database behaviour, leave the same verdict, rows, stored time and stored
\* memory.
C35_LimitsIgnored ==
  (twinPhase = "both") => twinOut[1] = twinOut[2]

\* both requests were stored as AC although the runner's 40 ms and 2048 KB
\* exceed the 30 ms and 1024 KB of one of the two problem rows
C35_Witness ==
  /\ twinPhase = "both" /\ twinOut[1] = twinOut[2]
  /\ twinProblems[1] = [time_limit_ms |-> 30, memory_limit_kb |-> 1024]
  /\ twinProblems[2] = [time_limit_ms |-> 0, memory_limit_kb |-> 262144]
  /\ Val(twinOut[1]).stored /\ Val(twinOut[1]).verdict = "AC"
  /\ ~IsNull(twinIn.run)
  /\ Val(twinIn.run).res.execTimeMs = Some(40)
  /\ Val(twinIn.run).res.memoryKb = Some(2048)
  /\ Val(twinOut[1]).mem = Some(2048)

\* ========================================================================
\* A leaderboard read during a recomputation (specification SpecBoard)
\* ========================================================================
\* the users and ranks a read returned
BoardEntries(b) == {<<b.rows[i].id, b.rows[i].rank>> : i \in 1..Len(b.rows)}
\* the recomputation that was in flight when the read ran, if any
InFlight(b) == {p \in ProcIds : b.procs[p].pc # "idle"}

\* C36: a recomputation sets every rank to null and then writes the ranks
\* one user at a time, and a leaderboard read sees what is written so far:
\* between the reset and the first write it returns no user, after k writes
\* the first k users of the new order with the ranks 1..k and no entry for
\* the others, and only a read that does not interleave with a
\* recomputation (and whose limit is large enough) returns every qualified
\* user.
C36_ReadSeesPartialRanks ==
  ~IsNull(board) =>
    LET b == Val(board)
    IN /\ \A i \in 1..Len(b.rows) : ~IsNull(b.rows[i].rank)
       /\ (InFlight(b) = {} /\ b.limit >= Cardinality(b.qualified)) =>
            /\ {b.rows[i].id : i \in 1..Len(b.rows)} = b.qualified
            /\ \A i \in 1..Len(b.rows) : b.rows[i].rank = Some(i)
       /\ \A p \in InFlight(b) :
            /\ b.procs[p].pc \in {"agg", "aggWrite", "select"} => b.rows = <<>>
            /\ (b.procs[p].pc = "assign" /\ b.limit >= Cardinality(Users)) =>
                 BoardEntries(b) =
                   {<<b.procs[p].ranked[i], Some(i)>> : i \in 1..b.procs[p].pos}

\* two users are qualified and the recomputation has written the rank of the
\* first: the read returned that user with rank 1 and no entry for the other
C36_Witness ==
  /\ ~IsNull(board)
  /\ Val(board).limit = 100 /\ Val(board).qualified = {"A", "B"}
  /\ \E p \in ProcIds :
       /\ Val(board).procs[p].pc = "assign" /\ Val(board).procs[p].pos = 1
       /\ Len(Val(board).procs[p].ranked) = 2
  /\ Len(Val(board).rows) = 1 /\ Val(board).rows[1].rank = Some(1)

====
